---------------------------- MODULE Spec2Model ----------------------------
(***************************************************************************)
(* ClawBands: the approval queue (src/core/ApprovalQueue.ts), the          *)
(* Arbitrator's mode dispatch, the Interceptor's rule lookup and decision  *)
(* execution, and the before_tool_call hook with the clawbands_respond     *)
(* control tool (src/plugin/tool-interceptor.ts).                          *)
(*                                                                         *)
(* Time is the value Date.now() returns, in milliseconds.  A handler is    *)
(* synchronous, so every Date.now() it reads is the same instant `now`.    *)
(* Strings that take part in key composition (session keys, module and     *)
(* method names) are sequences of symbols, ":" and "." being single        *)
(* characters, so that startsWith and concatenation are computed as the    *)
(* code computes them.                                                     *)
(***************************************************************************)
EXTENDS Integers, Sequences, FiniteSets, TLC

VARIABLES
    now,                  \* Date.now()
    entries,              \* ApprovalQueue.entries: composite key -> ApprovalEntry
    blanketAllows,        \* ApprovalQueue.blanketAllows: composite key -> expiresAt
    lastCleanup,          \* ApprovalQueue.lastCleanup
    isTTY,                \* process.stdin.isTTY
    respondToolAvailable, \* Interceptor.respondToolAvailable
    policy,               \* Interceptor.policy
    inFlight,             \* per concurrent tool call: the evaluate that has arbitrated
                          \*   and awaits its reporting, or Idle
    statsFile,            \* StatsTracker: the Stats held by stats.json, or Missing
    writeChain,           \* StatsTracker: the increments chained on writeChain and
                          \*   not yet settled, oldest first
    increments,           \* StatsTracker: per increment call, its position, its
                          \*   arguments and the Stats it loaded
    last,                 \* observation: the call made at this instant, its result
    approvedSince,        \* observation (direct queue calls): approve() was called
                          \*   for the probe's session since request() created the
                          \*   entry the probe's key holds
    denied,               \* observation (hook): the probe was pending in its session
                          \*   when a 'no' reply for it was handled, and no yes/allow
                          \*   reply for it was handled since
    allowed,              \* observation (hook): an 'allow' reply was handled for the
                          \*   probe's session while the probe was pending in it
    yesAt,                \* observation (hook): instant of the latest 'yes' reply
                          \*   handled for the probe's session since the probe was
                          \*   blocked, with no 'no' reply for it since
    approvedAt            \* observation (hook): instant of the 'yes' reply handled
                          \*   for the probe's session while the probe was pending,
                          \*   with no 'no' reply for it since

vars == <<now, entries, blanketAllows, lastCleanup, isTTY, respondToolAvailable,
          policy, inFlight, statsFile, writeChain, increments, last,
          approvedSince, denied, allowed, yesAt, approvedAt>>

\* What is awaited: the evaluate calls that yielded, and the stats file with
\* the increments chained on it
asyncVars == <<inFlight, statsFile, writeChain, increments>>

hookObs == <<denied, allowed, yesAt, approvedAt>>

qvars == <<entries, blanketAllows, lastCleanup>>

-----------------------------------------------------------------------------
(* Program constants *)

DEFAULT_TTL_MS == 120000

CONSUME_MAX_AGE_MS == 60000

CLEANUP_INTERVAL_MS == 30000

BLANKET_DURATION_MS == 900000

-----------------------------------------------------------------------------
(* Bounds of the model *)

\* The clock advances in steps of TickMs up to MaxTicks steps.  TickMs is the
\* greatest common divisor of the program's time windows, so every window
\* boundary (age = 60 s, now = expiresAt, 30 s since the last sweep) is an
\* instant of the model, with instants on both sides of it.
MaxTicks == 5

\* The same for the specification of the queue's methods called directly.
QueueMaxTicks == 4

\* The same for the specification of Interceptor.evaluate called directly: the
\* retry window stays open, so pending entries are inside it.
EvalMaxTicks == 1

\* The same for the specification of the blanket allows: grants of one and two
\* ticks are read before, at and after their expiry.
BlanketMaxTicks == 3

\* The same for the specification of the reporting: a blocked call is retried
\* inside the retry window.
AuditMaxTicks == 1

\* The same for the specification of the replies: an 'allow' reply meets
\* entries before and after their expiry.
ReplyMaxTicks == 4

\* The same for the specification of the concurrent tool calls: an entry turns
\* too old for a retry (60 s) while an evaluate is awaiting.
ConcMaxTicks == 3

\* The same for the specification of the colliding keys: a retry at the
\* instant of the request and one tick later, inside the 60 s window.
KeyMaxTicks == 1

TickMs == CLEANUP_INTERVAL_MS

-----------------------------------------------------------------------------
(* Strings *)

SEP == <<":", ":">>

DOT == <<".">>

\* String.prototype.startsWith
startsWith(str, prefix) ==
    /\ Len(prefix) <= Len(str)
    /\ SubSeq(str, 1, Len(prefix)) = prefix

\* Session keys the host passes in ctx.sessionKey.  "a" followed by "::" is a
\* prefix of "a::b".
SessionA == <<"a">>

SessionAB == <<"a", ":", ":", "b">>

SessionKeys == {SessionA, SessionAB}

Shell == <<"Shell">>

FileSystem == <<"FileSystem">>

Unknown == <<"Unknown">>

bash == <<"bash">>

write == <<"write">>

read == <<"read">>

\* The (sessionKey, moduleName, methodName) triples the queue is called with:
\* two operations of one session, and one of them in the other session too.
QueueCalls == {<<SessionA, Shell, bash>>,
               <<SessionAB, Shell, bash>>,
               <<SessionAB, FileSystem, write>>}

-----------------------------------------------------------------------------
(* ApprovalQueue *)

\* A composite key that leaves the session out
keyWithoutSession(sessionKey, moduleName, methodName) ==
    moduleName \o DOT \o methodName

\* private key(sessionKey, moduleName, methodName)
key(sessionKey, moduleName, methodName) ==
    sessionKey \o SEP \o moduleName \o DOT \o methodName

\* private keysForSession(sessionKey), over the keys of a map
keysForSession(es, sessionKey) ==
    {k \in DOMAIN es : startsWith(k, sessionKey \o SEP)}

EmptyMap == [k \in {} |-> 0]

\* Map.prototype.set
MapSet(map, k, v) == [j \in (DOMAIN map) \cup {k} |-> IF j = k THEN v ELSE map[j]]

\* Map.prototype.delete
MapDelete(map, k) == [j \in (DOMAIN map) \ {k} |-> map[j]]

\* The queue's fields as one value, so that a handler that calls several queue
\* methods in a row composes them.
Queue == [entries |-> entries, blanketAllows |-> blanketAllows, lastCleanup |-> lastCleanup]

\* A cleanup() that empties the blanket-allow map
cleanupDroppingGrants(q, t) ==
    [entries       |-> [k \in {j \in DOMAIN q.entries : ~(t >= q.entries[j].expiresAt)}
                           |-> q.entries[k]],
     blanketAllows |-> EmptyMap,
     lastCleanup   |-> t]

\* private cleanup()
cleanup(q, t) ==
    [entries       |-> [k \in {j \in DOMAIN q.entries : ~(t >= q.entries[j].expiresAt)}
                           |-> q.entries[k]],
     blanketAllows |-> [k \in {j \in DOMAIN q.blanketAllows : ~(t >= q.blanketAllows[j])}
                           |-> q.blanketAllows[k]],
     lastCleanup   |-> t]

\* A maybeCleanup() that sweeps on every call
maybeCleanupUnthrottled(q, t) == cleanup(q, t)

\* private maybeCleanup()
maybeCleanup(q, t) ==
    IF t - q.lastCleanup > CLEANUP_INTERVAL_MS THEN cleanup(q, t) ELSE q

\* A request() that keeps every pending, unexpired entry, whatever its age
requestSkipsAnyAge(q, sessionKey, moduleName, methodName, t) ==
    LET k == key(sessionKey, moduleName, methodName)
    IN  /\ k \in DOMAIN q.entries
        /\ q.entries[k].status = "pending"
        /\ t < q.entries[k].expiresAt

\* request(): TRUE when the 'pending already exists, skipping' branch is taken
requestSkips(q, sessionKey, moduleName, methodName, t) ==
    LET k == key(sessionKey, moduleName, methodName)
    IN  /\ k \in DOMAIN q.entries
        /\ q.entries[k].status = "pending"
        /\ t < q.entries[k].expiresAt
        /\ t - q.entries[k].createdAt <= CONSUME_MAX_AGE_MS

\* request(sessionKey, moduleName, methodName): the queue after the call
request(q, sessionKey, moduleName, methodName, t) ==
    LET c == maybeCleanup(q, t)
        k == key(sessionKey, moduleName, methodName)
    IN  IF requestSkips(c, sessionKey, moduleName, methodName, t)
        THEN c
        ELSE [c EXCEPT !.entries =
                 MapSet(c.entries, k,
                        [sessionKey |-> sessionKey,
                         moduleName |-> moduleName,
                         methodName |-> methodName,
                         status     |-> "pending",
                         createdAt  |-> t,
                         expiresAt  |-> t + DEFAULT_TTL_MS])]

\* A consume() that still accepts an approved entry at the instant it expires
consumeRetAtExpiry(q, sessionKey, moduleName, methodName, t) ==
    LET k == key(sessionKey, moduleName, methodName)
    IN  /\ k \in DOMAIN q.entries
        /\ q.entries[k].status = "approved"
        /\ t <= q.entries[k].expiresAt

\* consume(sessionKey, moduleName, methodName): the value returned
consumeRet(q, sessionKey, moduleName, methodName, t) ==
    LET k == key(sessionKey, moduleName, methodName)
    IN  /\ k \in DOMAIN q.entries
        /\ q.entries[k].status = "approved"
        /\ t < q.entries[k].expiresAt

\* A consume() that leaves the approved entry in the map
consumeKeepingEntry(q, sessionKey, moduleName, methodName, t) == q

\* consume(sessionKey, moduleName, methodName): the queue after the call
consume(q, sessionKey, moduleName, methodName, t) ==
    IF consumeRet(q, sessionKey, moduleName, methodName, t)
    THEN [q EXCEPT !.entries = MapDelete(q.entries, key(sessionKey, moduleName, methodName))]
    ELSE q

\* A consumePending() whose retry window is half of request()'s
consumePendingRetHalfWindow(q, sessionKey, moduleName, methodName, t) ==
    LET k == key(sessionKey, moduleName, methodName)
    IN  /\ k \in DOMAIN q.entries
        /\ q.entries[k].status = "pending"
        /\ t < q.entries[k].expiresAt
        /\ 2 * (t - q.entries[k].createdAt) <= CONSUME_MAX_AGE_MS

\* A consumePending() that refuses an entry of age exactly CONSUME_MAX_AGE_MS
consumePendingRetStrictAge(q, sessionKey, moduleName, methodName, t) ==
    LET k == key(sessionKey, moduleName, methodName)
    IN  /\ k \in DOMAIN q.entries
        /\ q.entries[k].status = "pending"
        /\ t < q.entries[k].expiresAt
        /\ t - q.entries[k].createdAt < CONSUME_MAX_AGE_MS

\* consumePending(sessionKey, moduleName, methodName): the value returned
consumePendingRet(q, sessionKey, moduleName, methodName, t) ==
    LET k == key(sessionKey, moduleName, methodName)
    IN  /\ k \in DOMAIN q.entries
        /\ q.entries[k].status = "pending"
        /\ t < q.entries[k].expiresAt
        /\ ~(t - q.entries[k].createdAt > CONSUME_MAX_AGE_MS)

\* A consumePending() that accepts the retry and leaves the entry in the map
consumePendingKeepingEntry(q, sessionKey, moduleName, methodName, t) == q

\* consumePending(sessionKey, moduleName, methodName): the queue after the call
consumePending(q, sessionKey, moduleName, methodName, t) ==
    IF consumePendingRet(q, sessionKey, moduleName, methodName, t)
    THEN [q EXCEPT !.entries = MapDelete(q.entries, key(sessionKey, moduleName, methodName))]
    ELSE q

\* approve(): the keys the loop turns to approved, in the swept map
approveKeys(es, sessionKey, t) ==
    {k \in keysForSession(es, sessionKey) :
        es[k].status = "pending" /\ t < es[k].expiresAt}

\* An approve() that does not reset the TTL of the entries it approves
approveKeepingExpiry(q, sessionKey, t) ==
    LET c == maybeCleanup(q, t)
        hit == approveKeys(c.entries, sessionKey, t)
    IN  [c EXCEPT !.entries =
            [k \in DOMAIN c.entries |->
                IF k \in hit
                THEN [c.entries[k] EXCEPT !.status = "approved"]
                ELSE c.entries[k]]]

\* approve(sessionKey): the queue after the call
approve(q, sessionKey, t) ==
    LET c == maybeCleanup(q, t)
        hit == approveKeys(c.entries, sessionKey, t)
    IN  [c EXCEPT !.entries =
            [k \in DOMAIN c.entries |->
                IF k \in hit
                THEN [c.entries[k] EXCEPT !.status = "approved",
                                          !.expiresAt = t + DEFAULT_TTL_MS]
                ELSE c.entries[k]]]

\* approve(sessionKey): the count returned
approveRet(q, sessionKey, t) ==
    Cardinality(approveKeys(maybeCleanup(q, t).entries, sessionKey, t))

\* deny(): the keys the loop deletes, in the swept map
denyKeys(es, sessionKey) ==
    {k \in keysForSession(es, sessionKey) : es[k].status = "pending"}

\* deny(sessionKey): the queue after the call
deny(q, sessionKey, t) ==
    LET c == maybeCleanup(q, t)
        hit == denyKeys(c.entries, sessionKey)
    IN  [c EXCEPT !.entries = [k \in (DOMAIN c.entries) \ hit |-> c.entries[k]]]

\* deny(sessionKey): the count returned
denyRet(q, sessionKey, t) ==
    Cardinality(denyKeys(maybeCleanup(q, t).entries, sessionKey))

\* hasPending(sessionKey)
hasPending(q, sessionKey, t) ==
    \E k \in keysForSession(q.entries, sessionKey) :
        q.entries[k].status = "pending" /\ t < q.entries[k].expiresAt

\* allowFor(sessionKey, moduleName, methodName, durationMs): the queue after the call
allowFor(q, sessionKey, moduleName, methodName, durationMs, t) ==
    [q EXCEPT !.blanketAllows =
        MapSet(q.blanketAllows, key(sessionKey, moduleName, methodName), t + durationMs)]

\* A hasBlanketAllow() that still honours a grant at the instant it expires
hasBlanketAllowRetAtExpiry(q, sessionKey, moduleName, methodName, t) ==
    LET k == key(sessionKey, moduleName, methodName)
    IN  /\ k \in DOMAIN q.blanketAllows
        /\ q.blanketAllows[k] # 0
        /\ ~(t > q.blanketAllows[k])

\* hasBlanketAllow(sessionKey, moduleName, methodName): the value returned.
\* `if (!expiresAt)` is also taken for a stored expiry of 0.
hasBlanketAllowRet(q, sessionKey, moduleName, methodName, t) ==
    LET k == key(sessionKey, moduleName, methodName)
    IN  /\ k \in DOMAIN q.blanketAllows
        /\ q.blanketAllows[k] # 0
        /\ ~(t >= q.blanketAllows[k])

\* hasBlanketAllow(sessionKey, moduleName, methodName): the queue after the call
hasBlanketAllow(q, sessionKey, moduleName, methodName, t) ==
    LET k == key(sessionKey, moduleName, methodName)
    IN  IF /\ k \in DOMAIN q.blanketAllows
           /\ q.blanketAllows[k] # 0
           /\ t >= q.blanketAllows[k]
        THEN [q EXCEPT !.blanketAllows = MapDelete(q.blanketAllows, k)]
        ELSE q

\* getPendingActions(sessionKey): the entries the filter keeps, by key; each
\* yields one {moduleName, methodName} element of the returned array
pendingActionKeys(q, sessionKey, t) ==
    {k \in keysForSession(q.entries, sessionKey) :
        q.entries[k].status = "pending" /\ t < q.entries[k].expiresAt}

-----------------------------------------------------------------------------
(* Observations *)

\* The tool calls the host may have in flight at once
Evaluations == {"first", "second"}

\* The increment calls of a run of the process
Increments == {"i1", "i2", "i3"}

\* stats.json does not exist; when it does, statsFile is <<its Stats>>
Missing == <<>>

\* StatsTracker.load: initialStats, written when stats.json does not exist
initialStats(t) ==
    [totalCalls |-> 0, approved |-> 0, rejected |-> 0, blocked |-> 0, allowed |-> 0,
     avgDecisionTime |-> 0, lastReset |-> t]

\* An increment that was not called yet
Unissued == [at |-> "unissued", decision |-> "none", decisionTime |-> 0,
             stats |-> initialStats(0)]

NoString == <<>>

\* The instant of an event that has not happened
Never == 0 - 1

\* What a key holds at instant t, as the queue's read paths tell the cases apart;
\* an approved entry is "extended" once the window of its request has closed and
\* it lives on the window approve() gave it.
condition(es, k, t) ==
    IF k \notin DOMAIN es THEN "missing"
    ELSE IF t >= es[k].expiresAt THEN "expired"
    ELSE IF es[k].status = "approved"
         THEN IF t >= es[k].createdAt + DEFAULT_TTL_MS THEN "extended" ELSE "approved"
    ELSE IF t - es[k].createdAt > CONSUME_MAX_AGE_MS THEN "stale"
    ELSE "fresh"

\* The record of a call: what was called, with what, the value returned, what
\* the key held when the call was made, the choice made at the terminal prompt
\* when the call showed one, the decision records the call reported, and the
\* result the hook returned to the host when the call came through the hook.
Call(op, sessionKey, moduleName, methodName, ret, pre) ==
    [op |-> op, sessionKey |-> sessionKey, moduleName |-> moduleName,
     methodName |-> methodName, ret |-> ret, pre |-> pre, answer |-> "none",
     reports |-> <<>>, result |-> "none"]

NoCall == Call("none", NoString, NoString, NoString, FALSE, "none")

\* No evaluate of the tool call is awaiting
Idle == NoCall

lastKey == key(last.sessionKey, last.moduleName, last.methodName)

\* The operation the hook observations follow: the ASK-ruled tool call of the
\* session whose key has the other session key, followed by "::", as a prefix
probe == <<SessionAB, Shell, bash>>

probeKey == key(probe[1], probe[2], probe[3])

\* The call in last is an evaluate of the probe
probeEvaluated ==
    /\ last.op = "evaluate"
    /\ <<last.sessionKey, last.moduleName, last.methodName>> = probe

\* yesAt and approvedAt speak of the time since the last evaluate of the probe,
\* the call in last excepted: they are forgotten at the step after that call.
settled(at) == IF probeEvaluated THEN Never ELSE at

\* Restriction of a map to the keys in ks
Restrict(map, ks) == [k \in (DOMAIN map) \cap ks |-> map[k]]

SetQueue(r) ==
    /\ entries' = r.entries
    /\ blanketAllows' = r.blanketAllows
    /\ lastCleanup' = r.lastCleanup

-----------------------------------------------------------------------------
(* The default security policy *)

DEFAULT_POLICY ==
    [defaultAction |-> "ASK",
     modules |->
        (<<"FileSystem">> :>
            (<<"read">>   :> [action |-> "ALLOW",
                              description |-> "Read-only access is generally safe"] @@
             <<"write">>  :> [action |-> "ASK",
                              description |-> "Modification of files requires approval"] @@
             <<"delete">> :> [action |-> "DENY",
                              description |-> "Deletion is strictly prohibited"])) @@
        (<<"Shell">> :>
            (<<"bash">>  :> [action |-> "ASK", description |-> "Shell command execution risk"] @@
             <<"exec">>  :> [action |-> "ASK",
                             description |-> "Arbitrary Code Execution (RCE) risk"] @@
             <<"spawn">> :> [action |-> "ASK", description |-> "Process spawning risk"])) @@
        (<<"Network">> :>
            (<<"fetch">>   :> [action |-> "ASK", description |-> "Potential data exfiltration"] @@
             <<"request">> :> [action |-> "ASK", description |-> "HTTP request may leak data"]))]

-----------------------------------------------------------------------------
(* The queue's public methods, called directly *)

Request(s, m, x) ==
    LET r == request(Queue, s, m, x, now)
        created == ~requestSkips(maybeCleanup(Queue, now), s, m, x, now)
    IN  /\ SetQueue(r)
        /\ last' = Call("request", s, m, x, created, condition(entries, key(s, m, x), now))
        /\ approvedSince' = (/\ approvedSince
                             /\ probeKey \in DOMAIN r.entries
                             /\ ~(created /\ <<s, m, x>> = probe))
        /\ UNCHANGED <<now, isTTY, respondToolAvailable, policy, asyncVars, hookObs>>

Consume(s, m, x) ==
    LET r == consume(Queue, s, m, x, now)
    IN  /\ SetQueue(r)
        /\ last' = Call("consume", s, m, x, consumeRet(Queue, s, m, x, now),
                        condition(entries, key(s, m, x), now))
        /\ approvedSince' = (approvedSince /\ probeKey \in DOMAIN r.entries)
        /\ UNCHANGED <<now, isTTY, respondToolAvailable, policy, asyncVars, hookObs>>

ConsumePending(s, m, x) ==
    LET r == consumePending(Queue, s, m, x, now)
    IN  /\ SetQueue(r)
        /\ last' = Call("consumePending", s, m, x, consumePendingRet(Queue, s, m, x, now),
                        condition(entries, key(s, m, x), now))
        /\ approvedSince' = (approvedSince /\ probeKey \in DOMAIN r.entries)
        /\ UNCHANGED <<now, isTTY, respondToolAvailable, policy, asyncVars, hookObs>>

Approve(s) ==
    LET r == approve(Queue, s, now)
    IN  /\ SetQueue(r)
        /\ last' = Call("approve", s, NoString, NoString, approveRet(Queue, s, now), "none")
        /\ approvedSince' = (/\ approvedSince \/ s = probe[1]
                             /\ probeKey \in DOMAIN r.entries)
        /\ UNCHANGED <<now, isTTY, respondToolAvailable, policy, asyncVars, hookObs>>

Deny(s) ==
    LET r == deny(Queue, s, now)
    IN  /\ SetQueue(r)
        /\ last' = Call("deny", s, NoString, NoString, denyRet(Queue, s, now), "none")
        /\ approvedSince' = (approvedSince /\ probeKey \in DOMAIN r.entries)
        /\ UNCHANGED <<now, isTTY, respondToolAvailable, policy, asyncVars, hookObs>>

\* The clock advances; the call observed at the previous instant is forgotten.
Advance(maxTicks) ==
    /\ now < maxTicks * TickMs
    /\ now' = now + TickMs
    /\ last' = NoCall
    /\ yesAt' = settled(yesAt)
    /\ approvedAt' = settled(approvedAt)
    /\ UNCHANGED <<qvars, isTTY, respondToolAvailable, policy, asyncVars, approvedSince,
                   denied, allowed>>

QueueTick == Advance(QueueMaxTicks)

\* new ApprovalQueue(): empty maps, lastCleanup = Date.now()
QueueInit ==
    /\ now = 0
    /\ entries = EmptyMap
    /\ blanketAllows = EmptyMap
    /\ lastCleanup = 0
    /\ isTTY = FALSE
    /\ respondToolAvailable = FALSE
    /\ policy = DEFAULT_POLICY
    /\ inFlight = [c \in Evaluations |-> Idle]
    /\ statsFile = Missing
    /\ writeChain = <<>>
    /\ increments = [i \in Increments |-> Unissued]
    /\ last = NoCall
    /\ approvedSince = FALSE
    /\ denied = FALSE
    /\ allowed = FALSE
    /\ yesAt = Never
    /\ approvedAt = Never

QueueNext ==
    \/ \E c \in QueueCalls : Request(c[1], c[2], c[3])
    \/ \E c \in QueueCalls : Consume(c[1], c[2], c[3])
    \/ \E c \in QueueCalls : ConsumePending(c[1], c[2], c[3])
    \/ \E s \in SessionKeys : Approve(s)
    \/ \E s \in SessionKeys : Deny(s)
    \/ QueueTick

QueueSpec == QueueInit /\ [][QueueNext]_vars

-----------------------------------------------------------------------------
(* Interceptor and Arbitrator *)

\* ctx.sessionKey when the host gives none (undefined, or the empty string:
\* both are falsy)
NoSession == <<>>

\* The value JavaScript gives for a property that is not there
Undefined == "undefined"

\* Members of Object.prototype: property names every object answers to, whatever
\* its own properties are
ObjectPrototypeKeys == {<<"constructor">>, <<"toString">>, <<"valueOf">>,
                        <<"hasOwnProperty">>}

\* What an inherited member (a function) gives when read as a SecurityRule
InheritedMember == [action |-> Undefined, description |-> Undefined]

\* Interceptor.lookupRule. this.policy.modules[moduleName] and
\* moduleRules[methodName] are plain property reads: an own property first,
\* else the member inherited from Object.prototype, else undefined.
lookupRule(pol, moduleName, methodName) ==
    LET ownModule == moduleName \in DOMAIN pol.modules
        inheritedModule == ~ownModule /\ moduleName \in ObjectPrototypeKeys
        ownRule == ownModule /\ methodName \in DOMAIN pol.modules[moduleName]
        inheritedRule == /\ ownModule \/ inheritedModule
                         /\ ~ownRule
                         /\ methodName \in ObjectPrototypeKeys
    IN  IF ownRule THEN pol.modules[moduleName][methodName]
        ELSE IF inheritedRule THEN InheritedMember
        ELSE [action |-> pol.defaultAction, description |-> "No specific rule defined"]

\* Arbitrator.judgeChannel: the value returned
judgeChannelRet(q, sessionKey, moduleName, methodName, t) ==
    \/ consumeRet(q, sessionKey, moduleName, methodName, t)
    \/ consumePendingRet(q, sessionKey, moduleName, methodName, t)

\* A judgeChannel whose Path B approves the retry without removing the entry
judgeChannelKeepingPending(q, sessionKey, moduleName, methodName, t) ==
    IF consumeRet(q, sessionKey, moduleName, methodName, t)
    THEN consume(q, sessionKey, moduleName, methodName, t)
    ELSE IF consumePendingRet(q, sessionKey, moduleName, methodName, t)
    THEN q
    ELSE request(q, sessionKey, moduleName, methodName, t)

\* A judgeChannel that goes from the retry test straight to request, without
\* consuming an approved entry first
judgeChannelWithoutPathA(q, sessionKey, moduleName, methodName, t) ==
    IF consumePendingRet(q, sessionKey, moduleName, methodName, t)
    THEN consumePending(q, sessionKey, moduleName, methodName, t)
    ELSE request(q, sessionKey, moduleName, methodName, t)

\* Arbitrator.judgeChannel: the queue after the call
judgeChannel(q, sessionKey, moduleName, methodName, t) ==
    IF consumeRet(q, sessionKey, moduleName, methodName, t)
    THEN consume(q, sessionKey, moduleName, methodName, t)
    ELSE IF consumePendingRet(q, sessionKey, moduleName, methodName, t)
    THEN consumePending(q, sessionKey, moduleName, methodName, t)
    ELSE request(q, sessionKey, moduleName, methodName, t)

\* A judge that tests the session key before the terminal
judgeModeSessionFirst(tty, sessionKey) ==
    IF sessionKey # NoSession THEN "Channel"
    ELSE IF tty THEN "Interactive"
    ELSE "Headless"

\* A judge that takes the queue's path whenever no terminal is attached
judgeModeQueueWithoutSession(tty, sessionKey) ==
    IF tty THEN "Interactive" ELSE "Channel"

\* Arbitrator.judge: the mode of the call
judgeMode(tty, sessionKey) ==
    IF tty THEN "Interactive"
    ELSE IF sessionKey # NoSession THEN "Channel"
    ELSE "Headless"

\* Arbitrator.judge: the value returned; answer is the choice made at the prompt
judgeRet(q, tty, sessionKey, moduleName, methodName, t, answer) ==
    CASE judgeMode(tty, sessionKey) = "Interactive" -> answer
      [] judgeMode(tty, sessionKey) = "Channel" ->
             judgeChannelRet(q, sessionKey, moduleName, methodName, t)
      [] OTHER -> FALSE

\* Arbitrator.judge: the queue after the call
judge(q, tty, sessionKey, moduleName, methodName, t) ==
    IF judgeMode(tty, sessionKey) = "Channel"
    THEN judgeChannel(q, sessionKey, moduleName, methodName, t)
    ELSE q

\* An executeDecision that lets the Arbitrator judge a DENY rule as well
executeDecisionRetDenyJudged(rule, q, tty, sessionKey, moduleName, methodName, t, answer) ==
    CASE rule.action = "ALLOW" -> TRUE
      [] rule.action \in {"DENY", "ASK"} ->
             judgeRet(q, tty, sessionKey, moduleName, methodName, t, answer)

\* Interceptor.executeDecision: the value returned
executeDecisionRet(rule, q, tty, sessionKey, moduleName, methodName, t, answer) ==
    CASE rule.action = "ALLOW" -> TRUE
      [] rule.action = "DENY" -> FALSE
      [] rule.action = "ASK" -> judgeRet(q, tty, sessionKey, moduleName, methodName, t, answer)

\* An executeDecision that calls the Arbitrator under every rule
executeDecisionAlwaysJudged(rule, q, tty, sessionKey, moduleName, methodName, t) ==
    judge(q, tty, sessionKey, moduleName, methodName, t)

\* Interceptor.executeDecision: the queue after the call
executeDecision(rule, q, tty, sessionKey, moduleName, methodName, t) ==
    IF rule.action = "ASK"
    THEN judge(q, tty, sessionKey, moduleName, methodName, t)
    ELSE q

\* DecisionLog.append: TRUE when it throws. A failure of the file system is
\* caught inside, logged and not rethrown.
appendThrows(auditFails) == auditFails /\ FALSE

\* StatsTracker.increment: TRUE when the returned promise rejects; load and
\* save rethrow a failure of the file system.
incrementThrows(statsFails) == statsFails

\* A logDecision that lets the failure of a sink through
logDecisionUncaught(decision, auditFails, statsFails) ==
    LET appendThrown == appendThrows(auditFails)
        incrementAttempted == ~appendThrown
        incrementThrown == incrementAttempted /\ incrementThrows(statsFails)
    IN  [decision |-> decision,
         audit    |-> IF auditFails THEN "failed" ELSE "appended",
         stats    |-> IF ~incrementAttempted THEN "not attempted"
                      ELSE IF statsFails THEN "failed" ELSE "incremented",
         thrown   |-> appendThrown \/ incrementThrown]

\* Interceptor.logDecision(record): what became of the record in the audit
\* sink and in the statistics sink, and whether the call throws. The increment
\* is awaited after the append inside one try block whose catch only logs.
logDecision(decision, auditFails, statsFails) ==
    LET appendThrown == appendThrows(auditFails)
        incrementAttempted == ~appendThrown
    IN  [decision |-> decision,
         audit    |-> IF auditFails THEN "failed" ELSE "appended",
         stats    |-> IF ~incrementAttempted THEN "not attempted"
                      ELSE IF statsFails THEN "failed" ELSE "incremented",
         thrown   |-> FALSE]

\* An executeDecision that reports an ASK only once it is approved
executeDecisionReportsApprovals(rule, q, tty, s, m, x, t, answer, auditFails, statsFails) ==
    CASE rule.action = "ALLOW" -> <<logDecision("ALLOWED", auditFails, statsFails)>>
      [] rule.action = "DENY" -> <<logDecision("BLOCKED", auditFails, statsFails)>>
      [] rule.action = "ASK" ->
             IF judgeRet(q, tty, s, m, x, t, answer)
             THEN <<logDecision("APPROVED", auditFails, statsFails)>>
             ELSE <<>>
      [] OTHER -> <<>>

\* Interceptor.executeDecision: the decision records passed to logDecision, in
\* order; the default branch throws without reporting
executeDecisionReports(rule, q, tty, s, m, x, t, answer, auditFails, statsFails) ==
    CASE rule.action = "ALLOW" -> <<logDecision("ALLOWED", auditFails, statsFails)>>
      [] rule.action = "DENY" -> <<logDecision("BLOCKED", auditFails, statsFails)>>
      [] rule.action = "ASK" ->
             <<logDecision(IF judgeRet(q, tty, s, m, x, t, answer)
                           THEN "APPROVED" ELSE "REJECTED",
                           auditFails, statsFails)>>
      [] OTHER -> <<>>

\* An evaluate that lets an operation through when its rule has no known action
evaluateRetFailOpen(pol, q, tty, respondTool, sessionKey, moduleName, methodName, t, answer) ==
    LET rule == lookupRule(pol, moduleName, methodName)
    IN  IF rule.action \notin {"ALLOW", "DENY", "ASK"}
        THEN "ok"
        ELSE IF executeDecisionRet(rule, q, tty, sessionKey, moduleName, methodName, t, answer)
        THEN "ok"
        ELSE IF ~tty /\ sessionKey # NoSession
        THEN IF respondTool THEN "APPROVAL_REQUIRED: clawbands_respond"
                            ELSE "APPROVAL_REQUIRED: call again"
        ELSE "Security Violation: DENIED"

\* An evaluate whose Channel-mode message never names the reply tool
evaluateRetWithoutReplyTool(pol, q, tty, respondTool, sessionKey, moduleName, methodName, t, answer) ==
    LET rule == lookupRule(pol, moduleName, methodName)
    IN  IF rule.action \notin {"ALLOW", "DENY", "ASK"}
        THEN "Unknown decision type"
        ELSE IF executeDecisionRet(rule, q, tty, sessionKey, moduleName, methodName, t, answer)
        THEN "ok"
        ELSE IF ~tty /\ sessionKey # NoSession
        THEN "APPROVAL_REQUIRED: call again"
        ELSE "Security Violation: DENIED"

\* Interceptor.evaluate: "ok" when it returns, else the kind of the Error thrown
evaluateRet(pol, q, tty, respondTool, sessionKey, moduleName, methodName, t, answer) ==
    LET rule == lookupRule(pol, moduleName, methodName)
    IN  IF rule.action \notin {"ALLOW", "DENY", "ASK"}
        THEN "Unknown decision type"
        ELSE IF executeDecisionRet(rule, q, tty, sessionKey, moduleName, methodName, t, answer)
        THEN "ok"
        ELSE IF ~tty /\ sessionKey # NoSession
        THEN IF respondTool THEN "APPROVAL_REQUIRED: clawbands_respond"
                            ELSE "APPROVAL_REQUIRED: call again"
        ELSE "Security Violation: DENIED"

\* Interceptor.evaluate: the queue after the call
evaluate(pol, q, tty, sessionKey, moduleName, methodName, t) ==
    executeDecision(lookupRule(pol, moduleName, methodName),
                    q, tty, sessionKey, moduleName, methodName, t)

-----------------------------------------------------------------------------
(* The before_tool_call hook *)

CLAWBANDS_RESPOND_TOOL == <<"clawbands_respond">>

\* String.prototype.toLowerCase, on the symbols of the model
toLowerCase(str) ==
    [i \in 1..Len(str) |->
        CASE str[i] = "Bash" -> "bash"
          [] str[i] = "YES" -> "yes"
          [] OTHER -> str[i]]

ToolEntry(module, method) == [module |-> <<module>>, method |-> <<method>>]

TOOL_TO_MODULE ==
    <<"read">>          :> ToolEntry("FileSystem", "read") @@
    <<"write">>         :> ToolEntry("FileSystem", "write") @@
    <<"edit">>          :> ToolEntry("FileSystem", "edit") @@
    <<"glob">>          :> ToolEntry("FileSystem", "list") @@
    <<"bash">>          :> ToolEntry("Shell", "bash") @@
    <<"exec">>          :> ToolEntry("Shell", "exec") @@
    <<"navigate">>      :> ToolEntry("Browser", "navigate") @@
    <<"screenshot">>    :> ToolEntry("Browser", "screenshot") @@
    <<"click">>         :> ToolEntry("Browser", "click") @@
    <<"type">>          :> ToolEntry("Browser", "type") @@
    <<"evaluate">>      :> ToolEntry("Browser", "evaluate") @@
    <<"fetch">>         :> ToolEntry("Network", "fetch") @@
    <<"request">>       :> ToolEntry("Network", "request") @@
    <<"webhook">>       :> ToolEntry("Network", "webhook") @@
    <<"download">>      :> ToolEntry("Network", "download") @@
    <<"list_sessions">> :> ToolEntry("Gateway", "listSessions") @@
    <<"list_nodes">>    :> ToolEntry("Gateway", "listNodes") @@
    <<"send_message">>  :> ToolEntry("Gateway", "sendMessage")

\* createToolCallHook: the module a tool name is evaluated as
toolModule(toolName) ==
    IF toLowerCase(toolName) \in DOMAIN TOOL_TO_MODULE
    THEN TOOL_TO_MODULE[toLowerCase(toolName)].module
    ELSE <<"Unknown">>

\* createToolCallHook: the method a tool name is evaluated as
toolMethod(toolName) ==
    IF toLowerCase(toolName) \in DOMAIN TOOL_TO_MODULE
    THEN TOOL_TO_MODULE[toLowerCase(toolName)].method
    ELSE toolName

\* handleRespondTool: the allowFor loop over the pending actions of the entries ks
RECURSIVE allowForAll(_, _, _, _)
allowForAll(q, sessionKey, ks, t) ==
    IF ks = {} THEN q
    ELSE LET k == CHOOSE j \in ks : TRUE
         IN  allowForAll(allowFor(q, sessionKey, q.entries[k].moduleName,
                                  q.entries[k].methodName, BLANKET_DURATION_MS, t),
                         sessionKey, ks \ {k}, t)

\* handleRespondTool: the blockReason returned
handleRespondToolRet(q, decision, sessionKey, t) ==
    CASE sessionKey = NoSession -> "Error: no session context available."
      [] sessionKey # NoSession /\ toLowerCase(decision) = <<"yes">> ->
            IF ~hasPending(q, sessionKey, t)
            THEN "No pending approvals to approve."
            ELSE "Approved. Retry the blocked tool."
      [] sessionKey # NoSession /\ toLowerCase(decision) = <<"no">> ->
            "Denied. Do NOT retry the blocked tool."
      [] sessionKey # NoSession /\ toLowerCase(decision) = <<"allow">> ->
            IF pendingActionKeys(q, sessionKey, t) = {}
            THEN "No pending approvals to allow."
            ELSE "Approved for 15 minutes. Retry the blocked tool."
      [] OTHER -> "Invalid decision."

\* handleRespondTool: the queue after the call
handleRespondTool(q, decision, sessionKey, t) ==
    CASE sessionKey = NoSession -> q
      [] sessionKey # NoSession /\ toLowerCase(decision) = <<"yes">> ->
            IF ~hasPending(q, sessionKey, t) THEN q ELSE approve(q, sessionKey, t)
      [] sessionKey # NoSession /\ toLowerCase(decision) = <<"no">> ->
            deny(q, sessionKey, t)
      [] sessionKey # NoSession /\ toLowerCase(decision) = <<"allow">> ->
            IF pendingActionKeys(q, sessionKey, t) = {}
            THEN q
            ELSE approve(allowForAll(q, sessionKey, pendingActionKeys(q, sessionKey, t), t),
                         sessionKey, t)
      [] OTHER -> q

-----------------------------------------------------------------------------
(* The plugin: tool calls arriving at the hook *)

\* The policy the plugin's Interceptor is constructed with
Policy == DEFAULT_POLICY

\* The (sessionKey, toolName) pairs of the tool calls: an ASK-ruled tool under two
\* spellings of its name, an ALLOW-ruled tool, and a call without session.
ToolCalls == {<<SessionAB, <<"bash">>>>,
              <<SessionAB, <<"Bash">>>>,
              <<SessionAB, <<"read">>>>,
              <<NoSession, <<"bash">>>>}

\* The (sessionKey, decision) pairs of the clawbands_respond calls: every
\* decision, a misspelt and an upper-case one in the session of the tool calls,
\* 'yes' and 'no' in the session whose key is a prefix of it, and a call without
\* session.
Replies == ({SessionAB} \X {<<"yes">>, <<"no">>, <<"allow">>, <<"YES">>, <<"maybe">>})
               \cup ({SessionA} \X {<<"yes">>, <<"no">>})
               \cup {<<NoSession, <<"yes">>>>}

\* The operation an entry stands for
operationOf(e) == <<e.sessionKey, e.moduleName, e.methodName>>

\* The operation c is pending and unexpired in its session
pendingIn(es, c, t) ==
    \E k \in DOMAIN es : /\ operationOf(es[k]) = c
                         /\ es[k].status = "pending"
                         /\ t < es[k].expiresAt

\* The operation c was blocked less than a TTL ago and its entry is still
\* there: it was neither evaluated again nor denied since
blockedIn(es, c, t) ==
    \E k \in DOMAIN es : /\ operationOf(es[k]) = c
                         /\ t < es[k].createdAt + DEFAULT_TTL_MS

\* The record of Interceptor.evaluate(m, x, args, s) called now, the audit
\* sink and the statistics sink failing or not. The prompt is shown by judgeTTY
\* only: an ASK rule with a terminal attached. An Error that logDecision lets
\* through is the outcome of the call.
Reported(s, m, x, answer, auditFails, statsFails) ==
    LET rule == lookupRule(policy, m, x)
        reports == executeDecisionReports(rule, Queue, isTTY, s, m, x, now, answer,
                                          auditFails, statsFails)
    IN  [Call("evaluate", s, m, x,
              IF \E i \in DOMAIN reports : reports[i].thrown
              THEN "Failed to log decision"
              ELSE evaluateRet(policy, Queue, isTTY, respondToolAvailable,
                               s, m, x, now, answer),
              condition(entries, key(s, m, x), now))
            EXCEPT !.answer = IF isTTY /\ rule.action = "ASK"
                              THEN IF answer THEN "approve" ELSE "reject"
                              ELSE "none",
                   !.reports = reports]

\* The same with both sinks working
Evaluated(s, m, x, answer) == Reported(s, m, x, answer, FALSE, FALSE)

\* The hook's result {}: the tool call passes through
PassThrough == [block |-> FALSE, blockReason |-> NoString]

\* The hook's result { block: true, blockReason }
Blocked(blockReason) == [block |-> TRUE, blockReason |-> blockReason]

\* A hook that lets the call through when evaluate refused it for want of an
\* approval channel
toolCallResultPassingHeadless(outcome) ==
    IF outcome \in {"ok", "Security Violation: DENIED"} THEN PassThrough
    ELSE Blocked(outcome)

\* createToolCallHook: the result returned for the outcome of evaluate; the
\* catch turns whatever evaluate throws into a block with its message
toolCallResult(outcome) ==
    IF outcome = "ok" THEN PassThrough ELSE Blocked(outcome)

\* createToolCallHook, toolName # CLAWBANDS_RESPOND_TOOL: the tool call of
\* session s is mapped to (module, method) and evaluated; answer is the choice
\* made at the prompt when a terminal is attached.
ToolCall(s, toolName, answer) ==
    LET m == toolModule(toolName)
        x == toolMethod(toolName)
    IN  /\ toolName # CLAWBANDS_RESPOND_TOOL
        /\ SetQueue(evaluate(policy, Queue, isTTY, s, m, x, now))
        /\ last' = [Evaluated(s, m, x, answer) EXCEPT
                        !.result = toolCallResult(Evaluated(s, m, x, answer).ret)]
        /\ yesAt' = settled(yesAt)
        /\ approvedAt' = settled(approvedAt)
        /\ UNCHANGED <<now, isTTY, respondToolAvailable, policy, asyncVars, approvedSince,
                       denied, allowed>>

\* createToolCallHook, toolName = CLAWBANDS_RESPOND_TOOL: handleRespondTool
Respond(s, decision) ==
    LET d == toLowerCase(decision)
        kind == IF s = NoSession THEN "no session"
                ELSE IF d \in {<<"yes">>, <<"no">>, <<"allow">>} THEN d[1]
                ELSE "invalid"
        mine == s = probe[1]
    IN  /\ SetQueue(handleRespondTool(Queue, decision, s, now))
        /\ last' = [Call(kind, s, NoString, NoString,
                         handleRespondToolRet(Queue, decision, s, now), "none")
                       EXCEPT !.result =
                           Blocked(handleRespondToolRet(Queue, decision, s, now))]
        /\ denied' = CASE mine /\ kind = "no" ->
                                denied \/ pendingIn(entries, probe, now)
                       [] mine /\ kind \in {"yes", "allow"} -> FALSE
                       [] OTHER -> denied
        /\ allowed' = (allowed \/ (/\ mine /\ kind = "allow"
                                    /\ pendingIn(entries, probe, now)))
        /\ yesAt' = CASE mine /\ kind = "yes"
                                /\ blockedIn(entries, probe, now) -> now
                      [] mine /\ kind = "no" -> Never
                      [] OTHER -> settled(yesAt)
        /\ approvedAt' = CASE mine /\ kind = "yes"
                                     /\ pendingIn(entries, probe, now) -> now
                           [] mine /\ kind = "no" -> Never
                           [] OTHER -> settled(approvedAt)
        /\ UNCHANGED <<now, isTTY, respondToolAvailable, policy, asyncVars, approvedSince>>

Tick == Advance(MaxTicks)

\* The plugin after register(): an empty queue; whether a terminal is attached
\* and whether the host registered clawbands_respond are facts of the process.
Init ==
    /\ now = 0
    /\ entries = EmptyMap
    /\ blanketAllows = EmptyMap
    /\ lastCleanup = 0
    /\ isTTY \in BOOLEAN
    /\ respondToolAvailable \in BOOLEAN
    /\ policy = Policy
    /\ inFlight = [c \in Evaluations |-> Idle]
    /\ statsFile = Missing
    /\ writeChain = <<>>
    /\ increments = [i \in Increments |-> Unissued]
    /\ last = NoCall
    /\ approvedSince = FALSE
    /\ denied = FALSE
    /\ allowed = FALSE
    /\ yesAt = Never
    /\ approvedAt = Never

Next ==
    \/ \E c \in ToolCalls, answer \in BOOLEAN : ToolCall(c[1], c[2], answer)
    \/ \E c \in Replies : Respond(c[1], c[2])
    \/ Tick

Spec == Init /\ [][Next]_vars

-----------------------------------------------------------------------------
(* Interceptor.evaluate called directly, on a queue that its public methods
   have filled *)

delete == <<"delete">>

\* The operations evaluated: one per action of the policy, and one without rule
EvalOps == {<<FileSystem, read>>, <<FileSystem, delete>>, <<Shell, bash>>,
            <<Unknown, bash>>}

\* The session keys evaluate is called with: a channel session and none
EvalSessions == {SessionAB, NoSession}

\* The operations of the channel session the queue is filled for
EvalQueueCalls == {<<SessionAB, FileSystem, delete>>, <<SessionAB, Shell, bash>>}

\* Interceptor.evaluate
Evaluate(s, m, x, answer) ==
    /\ SetQueue(evaluate(policy, Queue, isTTY, s, m, x, now))
    /\ last' = Evaluated(s, m, x, answer)
    /\ UNCHANGED <<now, isTTY, respondToolAvailable, policy, asyncVars, approvedSince, hookObs>>

\* ApprovalQueue.allowFor, with the duration handleRespondTool passes
AllowFor(s, m, x) ==
    /\ SetQueue(allowFor(Queue, s, m, x, BLANKET_DURATION_MS, now))
    /\ last' = Call("allowFor", s, m, x, FALSE, "none")
    /\ UNCHANGED <<now, isTTY, respondToolAvailable, policy, asyncVars, approvedSince, hookObs>>

EvalTick == Advance(EvalMaxTicks)

EvalNext ==
    \/ \E s \in EvalSessions, c \in EvalOps, answer \in BOOLEAN :
           Evaluate(s, c[1], c[2], answer)
    \/ \E c \in EvalQueueCalls : Request(c[1], c[2], c[3])
    \/ AllowFor(SessionAB, FileSystem, delete)
    \/ Approve(SessionAB)
    \/ EvalTick

EvalSpec == Init /\ [][EvalNext]_vars

-----------------------------------------------------------------------------
(* Interceptor.lookupRule applied to the policies an Interceptor can hold *)

CustomTool == <<"CustomTool">>

star == <<"*">>

\* The default policy after the policy command changed its default action to
\* DENY and added a module, which gets the single method entry '*'
ModulePolicy ==
    [defaultAction |-> "DENY",
     modules |-> DEFAULT_POLICY.modules @@
                 (CustomTool :> (star :> [action |-> "ALLOW",
                                          description |-> "Default rule for all methods"]))]

\* A policy file that has the default modules and no defaultAction: loadSync
\* returns the parsed file as it is
NoDefaultPolicy == [defaultAction |-> Undefined, modules |-> DEFAULT_POLICY.modules]

Policies == {DEFAULT_POLICY, ModulePolicy, NoDefaultPolicy}

\* The module and method names looked up: configured ones, a module without
\* rules, '*', a method no module has, and members of Object.prototype
LookupModules == {FileSystem, Shell, CustomTool, Unknown, <<"constructor">>}

LookupMethods == {read, write, delete, bash, star, <<"rm">>, <<"toString">>,
                  <<"constructor">>}

\* The policy has an entry for exactly this module and method
configured(pol, moduleName, methodName) ==
    /\ moduleName \in DOMAIN pol.modules
    /\ methodName \in DOMAIN pol.modules[moduleName]

\* lookupRule(moduleName, methodName) on the Interceptor's policy
Lookup(moduleName, methodName) ==
    /\ last' = Call("lookupRule", NoSession, moduleName, methodName,
                    lookupRule(policy, moduleName, methodName), "none")
    /\ UNCHANGED <<now, qvars, isTTY, respondToolAvailable, policy, asyncVars, approvedSince,
                   hookObs>>

\* new Interceptor(policy)
LookupInit ==
    /\ now = 0
    /\ entries = EmptyMap
    /\ blanketAllows = EmptyMap
    /\ lastCleanup = 0
    /\ isTTY = FALSE
    /\ respondToolAvailable = FALSE
    /\ policy \in Policies
    /\ inFlight = [c \in Evaluations |-> Idle]
    /\ statsFile = Missing
    /\ writeChain = <<>>
    /\ increments = [i \in Increments |-> Unissued]
    /\ last = NoCall
    /\ approvedSince = FALSE
    /\ denied = FALSE
    /\ allowed = FALSE
    /\ yesAt = Never
    /\ approvedAt = Never

LookupNext == \E m \in LookupModules, x \in LookupMethods : Lookup(m, x)

LookupSpec == LookupInit /\ [][LookupNext]_vars

-----------------------------------------------------------------------------
(* The blanket allows: allowFor and hasBlanketAllow called directly *)

\* The durationMs arguments of allowFor
Durations == {TickMs, 2 * TickMs}

\* The operations grants are given for and read
BlanketCalls == {<<SessionAB, Shell, bash>>, <<SessionAB, FileSystem, write>>}

\* What the blanket-allow map holds under key k at instant t
grant(bs, k, t) ==
    IF k \notin DOMAIN bs THEN "none"
    ELSE IF t >= bs[k] THEN "lapsed"
    ELSE "granted"

\* ApprovalQueue.allowFor; it returns nothing, the record keeps its durationMs
AllowForMs(s, m, x, durationMs) ==
    /\ SetQueue(allowFor(Queue, s, m, x, durationMs, now))
    /\ last' = Call("allowFor", s, m, x, durationMs, grant(blanketAllows, key(s, m, x), now))
    /\ UNCHANGED <<now, isTTY, respondToolAvailable, policy, asyncVars, approvedSince, hookObs>>

\* ApprovalQueue.hasBlanketAllow
HasBlanketAllow(s, m, x) ==
    /\ SetQueue(hasBlanketAllow(Queue, s, m, x, now))
    /\ last' = Call("hasBlanketAllow", s, m, x, hasBlanketAllowRet(Queue, s, m, x, now),
                    grant(blanketAllows, key(s, m, x), now))
    /\ UNCHANGED <<now, isTTY, respondToolAvailable, policy, asyncVars, approvedSince, hookObs>>

BlanketTick == Advance(BlanketMaxTicks)

BlanketNext ==
    \/ \E c \in BlanketCalls, d \in Durations : AllowForMs(c[1], c[2], c[3], d)
    \/ \E c \in BlanketCalls : HasBlanketAllow(c[1], c[2], c[3])
    \/ Request(SessionAB, Shell, bash)
    \/ Consume(SessionAB, Shell, bash)
    \/ ConsumePending(SessionAB, Shell, bash)
    \/ Approve(SessionAB)
    \/ Deny(SessionAB)
    \/ BlanketTick

BlanketSpec == QueueInit /\ [][BlanketNext]_vars

-----------------------------------------------------------------------------
(* Interceptor.evaluate and its reporting to the audit and statistics sinks *)

\* Interceptor.evaluate; each sink works or fails during the call
EvaluateReporting(s, m, x, answer, auditFails, statsFails) ==
    /\ SetQueue(evaluate(policy, Queue, isTTY, s, m, x, now))
    /\ last' = Reported(s, m, x, answer, auditFails, statsFails)
    /\ UNCHANGED <<now, isTTY, respondToolAvailable, policy, asyncVars, approvedSince, hookObs>>

AuditTick == Advance(AuditMaxTicks)

AuditNext ==
    \/ \E s \in EvalSessions, c \in EvalOps, answer \in BOOLEAN,
          auditFails \in BOOLEAN, statsFails \in BOOLEAN :
           EvaluateReporting(s, c[1], c[2], answer, auditFails, statsFails)
    \/ Approve(SessionAB)
    \/ AuditTick

AuditSpec == Init /\ [][AuditNext]_vars

-----------------------------------------------------------------------------
(* The hook on tool names absent from TOOL_TO_MODULE, under the policies the
   policy file can hold *)

\* The default policy after the policy command added the module 'Unknown',
\* which gets the single method entry '*', here with action ALLOW
UnknownModulePolicy ==
    [defaultAction |-> "ASK",
     modules |-> DEFAULT_POLICY.modules @@
                 (Unknown :> (star :> [action |-> "ALLOW",
                                       description |-> "Default rule for all methods"]))]

\* A policy file edited by hand: the action of Shell.bash is written in lower
\* case. loadSync returns what the file holds, unvalidated.
LowerCasePolicy ==
    [defaultAction |-> "ASK",
     modules |-> [DEFAULT_POLICY.modules EXCEPT ![Shell][bash].action = "ask"]]

\* The policies PolicyStore.loadSync returns to register()
HookPolicies == {DEFAULT_POLICY, UnknownModulePolicy, LowerCasePolicy}

\* The tool names of the calls: a mapped name under two spellings, and names
\* absent from the table, '*' and a member of Object.prototype among them
ToolNames == {<<"bash">>, <<"Bash">>, <<"read">>, <<"rm">>, star, <<"constructor">>}

UnmappedInit ==
    /\ now = 0
    /\ entries = EmptyMap
    /\ blanketAllows = EmptyMap
    /\ lastCleanup = 0
    /\ isTTY \in BOOLEAN
    /\ respondToolAvailable = FALSE
    /\ policy \in HookPolicies
    /\ inFlight = [c \in Evaluations |-> Idle]
    /\ statsFile = Missing
    /\ writeChain = <<>>
    /\ increments = [i \in Increments |-> Unissued]
    /\ last = NoCall
    /\ approvedSince = FALSE
    /\ denied = FALSE
    /\ allowed = FALSE
    /\ yesAt = Never
    /\ approvedAt = Never

UnmappedNext ==
    \E s \in EvalSessions, toolName \in ToolNames, answer \in BOOLEAN :
        ToolCall(s, toolName, answer)

UnmappedSpec == UnmappedInit /\ [][UnmappedNext]_vars

-----------------------------------------------------------------------------
(* The 'allow' reply, in each of the two sessions, on entries of both *)

\* One operation, pending in either session
ReplyCalls == {<<SessionA, Shell, bash>>, <<SessionAB, Shell, bash>>}

ReplyTick == Advance(ReplyMaxTicks)

ReplyNext ==
    \/ \E c \in ReplyCalls : Request(c[1], c[2], c[3])
    \/ \E s \in SessionKeys : Respond(s, <<"allow">>)
    \/ ReplyTick

ReplySpec == QueueInit /\ [][ReplyNext]_vars

-----------------------------------------------------------------------------
(* Concurrent tool calls: the host calls the hook again while an evaluate is
   awaiting. createToolCallHook, evaluate, executeDecision and judge run
   synchronously up to the first await that yields, which in channel mode is
   the one on judge's promise, after judgeChannel has returned; the awaits that
   follow are those of logDecision. handleRespondTool has no await. *)

\* The tool calls made concurrently: one ASK-ruled tool twice over, and another
ConcCalls == {<<SessionAB, <<"bash">>>>, <<SessionAB, <<"write">>>>}

ConcReplies == {SessionAB} \X {<<"yes">>, <<"no">>}

\* The hook up to its first yield: the rule is looked up and the decision is
\* executed, the arbitration included; the call then awaits its reporting.
Arbitrate(c, s, toolName) ==
    LET m == toolModule(toolName)
        x == toolMethod(toolName)
    IN  /\ inFlight[c] = Idle
        /\ toolName # CLAWBANDS_RESPOND_TOOL
        /\ SetQueue(evaluate(policy, Queue, isTTY, s, m, x, now))
        /\ inFlight' = [inFlight EXCEPT ![c] = Evaluated(s, m, x, FALSE)]
        /\ last' = [Evaluated(s, m, x, FALSE) EXCEPT !.op = "judged"]
        /\ UNCHANGED <<now, isTTY, respondToolAvailable, policy, statsFile,
                       writeChain, increments, approvedSince, hookObs>>

\* The rest of the hook: logDecision has settled, evaluate returns or throws
\* and the hook answers the host.
Return(c) ==
    /\ inFlight[c] # Idle
    /\ inFlight' = [inFlight EXCEPT ![c] = Idle]
    /\ last' = [inFlight[c] EXCEPT !.op = "returned",
                                   !.result = toolCallResult(inFlight[c].ret)]
    /\ UNCHANGED <<now, qvars, isTTY, respondToolAvailable, policy, statsFile,
                   writeChain, increments, approvedSince, hookObs>>

\* Time passes; the calls that are awaiting stay so.
ConcTick == Advance(ConcMaxTicks)

ConcNext ==
    \/ \E c \in Evaluations, t \in ConcCalls : Arbitrate(c, t[1], t[2])
    \/ \E c \in Evaluations : Return(c)
    \/ \E r \in ConcReplies : Respond(r[1], r[2])
    \/ ConcTick

ConcSpec == QueueInit /\ [][ConcNext]_vars

-----------------------------------------------------------------------------
(* StatsTracker: increment calls issued while earlier ones are still loading
   or saving. Each call chains its load/modify/save on writeChain; the steps
   of one increment are separated by the awaits on the file system. *)

\* The decisions counted
Decisions == {"ALLOWED", "APPROVED", "REJECTED", "BLOCKED"}

\* The decisionTime arguments, in ms
DecisionTimes == {0, 3}

\* Math.round of a quotient of non-negative integers
roundDiv(n, d) == (2 * n + d) \div (2 * d)

\* increment: the Stats it saves, from the Stats it loaded
incremented(stats, decision, decisionTime) ==
    LET total == stats.totalCalls + 1
    IN  [stats EXCEPT
            !.totalCalls = total,
            !.allowed = IF decision = "ALLOWED" THEN @ + 1 ELSE @,
            !.approved = IF decision = "APPROVED" THEN @ + 1 ELSE @,
            !.rejected = IF decision = "REJECTED" THEN @ + 1 ELSE @,
            !.blocked = IF decision = "BLOCKED" THEN @ + 1 ELSE @,
            !.avgDecisionTime =
                roundDiv(stats.avgDecisionTime * (total - 1) + decisionTime, total)]

\* An increment whose callback runs as soon as it is called
mayRunUnchained(chain, i) == TRUE

\* writeChain.then(...): the callback of increment i runs once every increment
\* chained before it has settled
mayRun(chain, i) == chain # <<>> /\ Head(chain) = i

\* The chain without increment i, which has settled
settle(chain, i) == SelectSeq(chain, LAMBDA j : j # i)

\* increment(decision, decisionTime) is called: its callback is chained
Issue(i, decision, decisionTime) ==
    /\ increments[i].at = "unissued"
    /\ increments' = [increments EXCEPT ![i] =
           [at |-> "chained", decision |-> decision, decisionTime |-> decisionTime,
            stats |-> initialStats(0)]]
    /\ writeChain' = Append(writeChain, i)
    /\ UNCHANGED <<now, qvars, isTTY, respondToolAvailable, policy, inFlight,
                   statsFile, last, approvedSince, hookObs>>

\* The callback starts: load() reads stats.json, or creates it with zeros
Load(i) ==
    /\ increments[i].at = "chained"
    /\ mayRun(writeChain, i)
    /\ statsFile' = IF statsFile = Missing THEN <<initialStats(now)>> ELSE statsFile
    /\ increments' = [increments EXCEPT
           ![i].at = "loaded",
           ![i].stats = IF statsFile = Missing THEN initialStats(now) ELSE statsFile[1]]
    /\ UNCHANGED <<now, qvars, isTTY, respondToolAvailable, policy, inFlight,
                   writeChain, last, approvedSince, hookObs>>

\* The callback ends: the counters are incremented and save() writes stats.json
Save(i) ==
    /\ increments[i].at = "loaded"
    /\ statsFile' = <<incremented(increments[i].stats, increments[i].decision,
                                  increments[i].decisionTime)>>
    /\ increments' = [increments EXCEPT ![i].at = "fulfilled"]
    /\ writeChain' = settle(writeChain, i)
    /\ UNCHANGED <<now, qvars, isTTY, respondToolAvailable, policy, inFlight,
                   last, approvedSince, hookObs>>

\* load() or save() throws: the increment rejects, stats.json is left as it is
\* and the chain goes on (op.catch)
Reject(i) ==
    /\ \/ increments[i].at = "chained" /\ mayRun(writeChain, i)
       \/ increments[i].at = "loaded"
    /\ increments' = [increments EXCEPT ![i].at = "rejected"]
    /\ writeChain' = settle(writeChain, i)
    /\ UNCHANGED <<now, qvars, isTTY, respondToolAvailable, policy, inFlight,
                   statsFile, last, approvedSince, hookObs>>

StatsNext ==
    \/ \E i \in Increments, d \in Decisions, t \in DecisionTimes : Issue(i, d, t)
    \/ \E i \in Increments : Load(i)
    \/ \E i \in Increments : Save(i)
    \/ \E i \in Increments : Reject(i)

StatsSpec == QueueInit /\ [][StatsNext]_vars

-----------------------------------------------------------------------------
(* Tool calls whose session key or tool name contains '::' and '.': the host
   chooses both strings, and an unmapped tool name is the method verbatim. *)

\* A session key that continues "a" by what key() puts between a session key
\* and a method of module Unknown
SessionAUnknownX == <<"a", ":", ":", "Unknown", ".", "x">>

\* An unmapped tool name that continues "x" by what key() puts between a
\* session key and Shell.bash
ToolXShellBash == <<"x", ":", ":", "Shell", ".", "bash">>

KeySessions == {SessionA, SessionAUnknownX}

KeyTools == {<<"bash">>, ToolXShellBash}

KeyTick == Advance(KeyMaxTicks)

KeyNext ==
    \/ \E s \in KeySessions, toolName \in KeyTools : ToolCall(s, toolName, FALSE)
    \/ \E s \in KeySessions : Respond(s, <<"yes">>)
    \/ KeyTick

KeySpec == QueueInit /\ [][KeyNext]_vars

-----------------------------------------------------------------------------
(* Properties of the plugin hook, under Spec *)

\* The call in last is a Channel-mode evaluate of the probe
probeJudgedInChannel == probeEvaluated /\ ~isTTY

\* C1: after an 'allow' reply was handled for session s while the ASK-ruled
\* operation (m, x) was pending in s, every Channel-mode evaluate of (m, x) in s
\* during the following 15 minutes succeeds, the 2nd and 3rd call too.
AllowCoversEveryRetry ==
    (/\ probeJudgedInChannel
     /\ allowed
     /\ hasBlanketAllowRet(Queue, probe[1], probe[2], probe[3], now))
        => last.ret = "ok"

\* C2, as stated: the operation was blocked in s at t0, a 'yes' reply for s was
\* handled at t1 < t0 + TTL, and the operation is evaluated again in s at
\* t2 < t1 + TTL with no 'no' reply for s and no other evaluate of it in
\* between: that evaluate succeeds.
AnyYesThenRetrySucceeds ==
    (/\ probeJudgedInChannel
     /\ yesAt # Never
     /\ now < yesAt + 120000)
        => last.ret = "ok"

\* C2, amended: the operation was blocked in s at t0, a 'yes' reply for s was
\* handled at t1 < t0 + TTL while its entry was still pending, and the operation
\* is evaluated again in s at t2 < t1 + TTL with no 'no' reply for s and no
\* other evaluate of it in between: that evaluate succeeds, also when
\* t2 >= t0 + TTL.
ApprovingYesThenRetrySucceeds ==
    (/\ probeJudgedInChannel
     /\ approvedAt # Never
     /\ now < approvedAt + 120000)
        => last.ret = "ok"

\* C2 witness: a retry made after a 'yes' reply succeeded on an entry whose
\* request window had closed
LateRetryApproved ==
    /\ probeJudgedInChannel
    /\ approvedAt # Never
    /\ now < approvedAt + 120000
    /\ last.pre = "extended"
    /\ last.ret = "ok"

\* C5: with the reply tool registered, an ASK-ruled operation evaluated in
\* Channel mode is approved only on an entry that a 'yes' or 'allow' reply has
\* approved: evaluate calls alone never get it approved.
NoRetryApprovalWithReplyTool ==
    (/\ respondToolAvailable
     /\ ~isTTY
     /\ last.op = "evaluate"
     /\ last.sessionKey # NoSession
     /\ lookupRule(policy, last.moduleName, last.methodName).action = "ASK"
     /\ last.ret = "ok")
        => last.pre \in {"approved", "extended"}

\* C6: after a 'no' reply was handled for session s while the operation was
\* pending in s, a later Channel-mode evaluate of it in s does not succeed
\* unless a later 'yes' or 'allow' reply was handled for s (stated where the
\* reply tool is registered).
DeniedStaysBlocked ==
    (/\ probeJudgedInChannel
     /\ respondToolAvailable
     /\ denied)
        => last.ret # "ok"

\* The call in last is an evaluate of an ASK-ruled operation judged in Channel
\* mode: no terminal, session key present
askJudgedInChannel ==
    /\ last.op = "evaluate"
    /\ ~isTTY
    /\ last.sessionKey # NoSession
    /\ lookupRule(policy, last.moduleName, last.methodName).action = "ASK"

\* C13: in Channel mode judge returns true iff at the call the key has an
\* unexpired approved entry (Path A) or an unexpired pending entry of age
\* <= 60 s (Path B), and that entry is deleted; otherwise it returns false and
\* the key then holds a live pending entry, armed at the call.
JudgeChannelExact ==
    askJudgedInChannel =>
        /\ (last.ret = "ok") <=> (last.pre \in {"approved", "extended", "fresh"})
        /\ last.ret = "ok" => lastKey \notin DOMAIN entries
        /\ last.ret # "ok" =>
               /\ lastKey \in DOMAIN entries
               /\ entries[lastKey].status = "pending"
               /\ entries[lastKey].createdAt = now
               /\ now < entries[lastKey].expiresAt

\* C13 witness: a retry inside the window was approved by Path B and its
\* pending entry is gone
PathBApproved ==
    /\ askJudgedInChannel
    /\ last.pre = "fresh"
    /\ last.ret = "ok"
    /\ lastKey \notin DOMAIN entries

\* The kinds of clawbands_respond calls
ReplyKinds == {"no session", "yes", "no", "allow", "invalid"}

\* C29: the hook never throws: for a tool call it returns the pass-through
\* result iff evaluate succeeded and {block: true, blockReason} otherwise; a
\* call of clawbands_respond is answered with block: true for every decision
\* and session state, and is never evaluated against the policy.
HookAlwaysAnswers ==
    /\ last.op = "evaluate" =>
           /\ last.result \in {PassThrough, Blocked(last.ret)}
           /\ (last.result = PassThrough) <=> (last.ret = "ok")
    /\ last.op \in ReplyKinds =>
           /\ last.result = Blocked(last.ret)
           /\ last.result.block
           /\ last.reports = <<>>
           /\ last.moduleName = NoString

\* C29 witness: a reply that is no decision was answered with a block while
\* entries of the session were pending
InvalidReplyBlocked ==
    /\ last.op = "invalid"
    /\ last.result.block
    /\ hasPending(Queue, last.sessionKey, now)

\* C36: an approval is never lost to a retry: when a key holds an approved
\* entry with now < expiresAt, a Channel-mode evaluate of that ASK-ruled
\* operation in that session succeeds, and no step of the hook (tool call,
\* reply, time) turns a live approved entry into a pending one.
ApprovalNotLostToRetry ==
    [][ /\ ( /\ last'.op = "evaluate"
             /\ ~isTTY
             /\ last'.sessionKey # NoSession
             /\ lookupRule(policy, last'.moduleName, last'.methodName).action = "ASK"
             /\ lastKey' \in DOMAIN entries
             /\ entries[lastKey'].status = "approved"
             /\ now < entries[lastKey'].expiresAt )
           => last'.ret = "ok"
        /\ \A k \in DOMAIN entries :
               (entries[k].status = "approved" /\ now < entries[k].expiresAt)
                   => ~(k \in DOMAIN entries' /\ entries'[k].status = "pending")
      ]_vars

\* The tool call found the entry a 'yes' reply had approved, inside the window
\* of its request, and went through; the entry is consumed, not re-armed.
ApprovedEntryGranted ==
    /\ askJudgedInChannel
    /\ last.pre = "approved"
    /\ last.ret = "ok"
    /\ last.result = PassThrough
    /\ lastKey \notin DOMAIN entries

\* C37: in Channel arbitration the 'pending already exists, skip' branch of
\* request is never taken: when judge reaches request the key holds no pending
\* unexpired entry of age <= 60 s, so every Channel-mode 'not approved' outcome
\* leaves the key with an entry whose createdAt = now and expiresAt = now + TTL.
JudgeNeverSkipsRequest ==
    [][ ( /\ last'.op = "evaluate"
          /\ ~isTTY
          /\ last'.sessionKey # NoSession
          /\ lookupRule(policy, last'.moduleName, last'.methodName).action = "ASK"
          /\ last'.ret # "ok" )
        => /\ ~requestSkips(maybeCleanup(Queue, now), last'.sessionKey,
                            last'.moduleName, last'.methodName, now)
           /\ ~requestSkips(Queue, last'.sessionKey,
                            last'.moduleName, last'.methodName, now)
           /\ lastKey' \in DOMAIN entries'
           /\ entries'[lastKey'].status = "pending"
           /\ entries'[lastKey'].createdAt = now
           /\ entries'[lastKey'].expiresAt = now + 120000
      ]_vars

\* A retry made more than 60 s after the request found its entry too old for
\* Path B and live: request replaced it by a new one.
StaleRetryRearmedByJudge ==
    /\ askJudgedInChannel
    /\ last.pre = "stale"
    /\ last.ret # "ok"
    /\ entries[lastKey].createdAt = now
    /\ entries[lastKey].expiresAt = now + 120000

-----------------------------------------------------------------------------
(* Properties of the queue's methods, under QueueSpec *)

\* The composite keys of the calls made
QueueKeys == {key(c[1], c[2], c[3]) : c \in QueueCalls}

isStatus(es, k, status) == k \in DOMAIN es /\ es[k].status = status

\* The entry request() stores at instant t
freshEntry(s, m, x, t) ==
    [sessionKey |-> s, moduleName |-> m, methodName |-> x, status |-> "pending",
     createdAt |-> t, expiresAt |-> t + DEFAULT_TTL_MS]

\* A pending, unexpired entry older than the retry window
isStale(es, k, t) ==
    /\ isStatus(es, k, "pending")
    /\ t < es[k].expiresAt
    /\ t - es[k].createdAt > CONSUME_MAX_AGE_MS

\* C3: approvals are single-use.  consume returns true exactly on an approved,
\* unexpired entry and deletes it; a key's entry becomes approved only by an
\* approve step acting on a pending entry, and becomes pending only by a request
\* on that key: so after a consume that returned true every later consume on the
\* key returns false until a new request followed by a new approve.
ConsumeSingleUse ==
    [][ /\ last'.op = "consume" =>
            /\ last'.ret = (/\ isStatus(entries, lastKey', "approved")
                            /\ now < entries[lastKey'].expiresAt)
            /\ last'.ret => entries' = MapDelete(entries, lastKey')
            /\ ~last'.ret => entries' = entries
        /\ \A k \in QueueKeys :
            /\ (~isStatus(entries, k, "approved") /\ isStatus(entries', k, "approved"))
                   => last'.op = "approve" /\ isStatus(entries, k, "pending")
            /\ (~isStatus(entries, k, "pending") /\ isStatus(entries', k, "pending"))
                   => last'.op = "request" /\ lastKey' = k
      ]_vars

\* C3 witness: a consume has just returned true and the key holds no entry
ConsumedOnce ==
    /\ last.op = "consume"
    /\ last.ret
    /\ lastKey \notin DOMAIN entries

\* C4: consume(s, m, x) returns true only if approve(s) ran after the request
\* that created the key's current entry; a consume right after a request on the
\* key returns false and leaves the pending entry in place.
ConsumeNeedsApproveOfSession ==
    [][ last'.op = "consume" =>
            /\ (last'.ret /\ lastKey' = probeKey) => approvedSince
            /\ (last.op = "request" /\ lastKey = lastKey') =>
                   /\ ~last'.ret
                   /\ entries' = entries
                   /\ isStatus(entries', lastKey', "pending")
      ]_vars

\* C7: consumePending returns true and deletes the entry exactly when the key
\* has a pending entry with now < expiresAt and now - createdAt <= 60 s;
\* otherwise it returns false and changes nothing; a request on a key whose
\* entry is pending, unexpired and older than 60 s stores an entry created now.
ConsumePendingExact ==
    [][ /\ last'.op = "consumePending" =>
            /\ last'.ret = (/\ isStatus(entries, lastKey', "pending")
                            /\ now < entries[lastKey'].expiresAt
                            /\ now - entries[lastKey'].createdAt <= 60000)
            /\ last'.ret => entries' = MapDelete(entries, lastKey')
            /\ ~last'.ret => UNCHANGED qvars
        /\ (last'.op = "request" /\ isStale(entries, lastKey', now)) =>
            /\ entries'[lastKey'].status = "pending"
            /\ entries'[lastKey'].createdAt = now
      ]_vars

\* C7 witness: a request has re-armed a key whose stale pending entry
\* consumePending refused
StaleRearmed ==
    /\ last.op = "request"
    /\ last.pre = "stale"
    /\ entries[lastKey].createdAt = now

ApproveExactlySession ==
    [][ last'.op = "approve" =>
            LET live == {k \in DOMAIN entries : now < entries[k].expiresAt}
                hit == {k \in live : /\ entries[k].sessionKey = last'.sessionKey
                                     /\ entries[k].status = "pending"}
            IN  /\ last'.ret = Cardinality(hit)
                /\ DOMAIN entries' \subseteq DOMAIN entries
                /\ \A k \in live :
                       /\ k \in DOMAIN entries'
                       /\ entries'[k] = IF k \in hit
                                        THEN [entries[k] EXCEPT !.status = "approved",
                                                                !.expiresAt = now + 120000]
                                        ELSE entries[k]
      ]_vars

\* C10: deny(s) removes every pending entry of session s, returns the number of
\* entries removed (an expired one counts or not), and leaves the approved
\* entries of s and the unexpired entries of the other sessions unchanged;
\* afterwards hasPending(s) is false and consumePending is false for every key
\* of s.
DenyExactlySession ==
    [][ last'.op = "deny" =>
            LET mine == {k \in DOMAIN entries :
                            /\ entries[k].sessionKey = last'.sessionKey
                            /\ entries[k].status = "pending"}
                live == {k \in DOMAIN entries : now < entries[k].expiresAt}
            IN  /\ Cardinality(mine \cap live) <= last'.ret
                /\ last'.ret <= Cardinality(mine)
                /\ DOMAIN entries' \subseteq (DOMAIN entries) \ mine
                /\ live \ mine \subseteq DOMAIN entries'
                /\ \A k \in DOMAIN entries' : entries'[k] = entries[k]
                /\ ~hasPending(Queue', last'.sessionKey, now)
                /\ \A c \in QueueCalls :
                       c[1] = last'.sessionKey =>
                           ~consumePendingRet(Queue', c[1], c[2], c[3], now)
      ]_vars

\* C21: approve(s), deny(s), hasPending(s) and getPendingActions(s) consider
\* and change only entries whose sessionKey equals s: a call for s never
\* approves, denies or reports an entry of another session, also when s
\* followed by '::' is a prefix of the other session key.
SessionIsolation ==
    [][ /\ last'.op \in {"approve", "deny"} =>
               \A k \in DOMAIN entries :
                   (/\ entries[k].sessionKey # last'.sessionKey
                    /\ now < entries[k].expiresAt) =>
                       /\ k \in DOMAIN entries'
                       /\ entries'[k] = entries[k]
        /\ \A s \in SessionKeys :
               /\ hasPending(Queue, s, now) =>
                      \E k \in DOMAIN entries : entries[k].sessionKey = s
               /\ \A k \in pendingActionKeys(Queue, s, now) :
                      entries[k].sessionKey = s
      ]_vars

\* C22: in every reachable state there is at most one entry per composite key
\* and per operation, stored under the key of its own operation; after a
\* request the key holds the single live pending entry of the requested
\* operation, and a request inside the freshness window is absorbed.
OneEntryPerKey ==
    /\ \A k \in DOMAIN entries :
           key(entries[k].sessionKey, entries[k].moduleName, entries[k].methodName) = k
    /\ \A c \in QueueCalls :
           Cardinality({k \in DOMAIN entries : operationOf(entries[k]) = c}) <= 1
    /\ last.op = "request" =>
           /\ lastKey \in DOMAIN entries
           /\ operationOf(entries[lastKey])
                  = <<last.sessionKey, last.moduleName, last.methodName>>
           /\ entries[lastKey].status = "pending"
           /\ now < entries[lastKey].expiresAt
           /\ last.pre = "fresh" => last.ret = FALSE

\* C22 witness: a second request for the key arrived at the instant of the
\* first and was absorbed by its entry
SecondRequestSameInstant ==
    /\ last.op = "request"
    /\ last.pre = "fresh"
    /\ last.ret = FALSE
    /\ entries[lastKey].createdAt = now
    /\ Cardinality({k \in DOMAIN entries :
                       operationOf(entries[k])
                           = <<last.sessionKey, last.moduleName, last.methodName>>}) = 1

\* C23: hasPending(s) is true iff session s has at least one entry that is
\* pending with now < expiresAt, and at the same instant iff
\* getPendingActions(s) is non-empty iff approve(s) would return a count >= 1.
PendingReportsAgree ==
    \A s \in SessionKeys :
        /\ hasPending(Queue, s, now) <=>
               \E k \in DOMAIN entries : /\ entries[k].sessionKey = s
                                         /\ entries[k].status = "pending"
                                         /\ now < entries[k].expiresAt
        /\ hasPending(Queue, s, now) <=> (pendingActionKeys(Queue, s, now) # {})
        /\ hasPending(Queue, s, now) <=> (approveRet(Queue, s, now) >= 1)

\* C11: the housekeeping sweep is unobservable: the value consume and
\* consumePending return and the counts approve and deny return are the values
\* obtained on the swept queue, where every entry with now >= expiresAt is absent,
\* whether the sweep has run or not.
SweepUnobservable ==
    [][ /\ last'.op = "consume" =>
            last'.ret = consumeRet(cleanup(Queue, now), last'.sessionKey,
                                   last'.moduleName, last'.methodName, now)
        /\ last'.op = "consumePending" =>
            last'.ret = consumePendingRet(cleanup(Queue, now), last'.sessionKey,
                                          last'.moduleName, last'.methodName, now)
        /\ last'.op = "approve" =>
            last'.ret = Cardinality(approveKeys(cleanup(Queue, now).entries,
                                                last'.sessionKey, now))
        /\ last'.op = "deny" =>
            last'.ret = Cardinality(denyKeys(cleanup(Queue, now).entries,
                                             last'.sessionKey))
      ]_vars

\* C12: consume and consumePending on a key with no entry, or with an entry for
\* which now >= expiresAt, return false and change neither the entries nor the
\* blanket allows; no step turns an expired pending entry into an approved one.
NoApprovalFromDeadEntry ==
    [][ /\ (/\ last'.op \in {"consume", "consumePending"}
            /\ \/ lastKey' \notin DOMAIN entries
               \/ now >= entries[lastKey'].expiresAt) =>
                   /\ last'.ret = FALSE
                   /\ entries' = entries
                   /\ blanketAllows' = blanketAllows
        /\ \A k \in DOMAIN entries :
               (entries[k].status = "pending" /\ now >= entries[k].expiresAt) =>
                   ~isStatus(entries', k, "approved")
      ]_vars

\* C12 witness: consume or consumePending has just refused an entry that is
\* still in the map at now >= expiresAt
ExpiredRefused ==
    /\ last.op \in {"consume", "consumePending"}
    /\ last.pre = "expired"
    /\ last.ret = FALSE
    /\ lastKey \in DOMAIN entries
    /\ now >= entries[lastKey].expiresAt

-----------------------------------------------------------------------------
(* Properties of Interceptor.evaluate, under EvalSpec *)

\* The action of the rule the call in last' was decided by
ruledNext(action) ==
    /\ last'.op = "evaluate"
    /\ lookupRule(policy, last'.moduleName, last'.methodName).action = action

\* C14: evaluate of a DENY-ruled operation fails in every environment and
\* queue state (approved entry, pending entry inside the retry window, blanket
\* allow, retries) and leaves the entries and the blanket allows unchanged.
DenyAlwaysFails ==
    [][ ruledNext("DENY") => (last'.ret # "ok" /\ UNCHANGED qvars) ]_vars

\* C14 witness: a DENY-ruled operation was refused in Channel mode although
\* its key holds an approved entry and a blanket allow covers it
DenyRefusedDespiteApproval ==
    /\ last.op = "evaluate"
    /\ lookupRule(policy, last.moduleName, last.methodName).action = "DENY"
    /\ ~isTTY
    /\ last.sessionKey # NoSession
    /\ last.pre = "approved"
    /\ hasBlanketAllowRet(Queue, last.sessionKey, last.moduleName, last.methodName, now)
    /\ last.ret # "ok"

\* C15: the failure of a DENY-ruled operation is the policy-violation signal
\* in every environment, Channel mode included; the approval-pending failure
\* with retry instructions is produced only for an ASK rule that Channel
\* arbitration left unapproved.
DenySignalsPolicyViolation ==
    last.op = "evaluate" =>
        /\ lookupRule(policy, last.moduleName, last.methodName).action = "DENY" =>
               last.ret = "Security Violation: DENIED"
        /\ last.ret \in {"APPROVAL_REQUIRED: clawbands_respond",
                         "APPROVAL_REQUIRED: call again"} =>
               /\ lookupRule(policy, last.moduleName, last.methodName).action = "ASK"
               /\ ~isTTY
               /\ last.sessionKey # NoSession

\* C16: evaluate of an ALLOW-ruled operation succeeds in every environment
\* and leaves the entries and the blanket allows unchanged.
AllowAlwaysSucceeds ==
    [][ ruledNext("ALLOW") => (last'.ret = "ok" /\ UNCHANGED qvars) ]_vars

\* C16 witness: an ALLOW-ruled operation succeeded in Channel mode while the
\* queue held entries of that session
AllowedBesideEntries ==
    /\ last.op = "evaluate"
    /\ lookupRule(policy, last.moduleName, last.methodName).action = "ALLOW"
    /\ ~isTTY
    /\ last.sessionKey # NoSession
    /\ keysForSession(entries, last.sessionKey) # {}
    /\ last.ret = "ok"

\* C17: Headless is fail-secure: with no terminal and no session key, evaluate
\* of an ASK-ruled operation fails, and no entry or blanket allow is created,
\* changed or removed.
HeadlessFailSecure ==
    [][ (ruledNext("ASK") /\ ~isTTY /\ last'.sessionKey = NoSession) =>
            (last'.ret = "Security Violation: DENIED" /\ UNCHANGED qvars) ]_vars

\* C17 witness: an ASK-ruled operation was refused without terminal and
\* session, the queue holding what it held
HeadlessRefused ==
    /\ last.op = "evaluate"
    /\ lookupRule(policy, last.moduleName, last.methodName).action = "ASK"
    /\ ~isTTY
    /\ last.sessionKey = NoSession
    /\ last.ret = "Security Violation: DENIED"
    /\ DOMAIN entries # {}

\* C18: with a terminal attached, evaluate of an ASK-ruled operation succeeds
\* exactly when the human chose to approve, and the queue is neither read nor
\* modified, also with a session key and with entries for the operation.
TerminalDecidesAlone ==
    [][ (ruledNext("ASK") /\ isTTY) =>
            /\ last'.answer \in {"approve", "reject"}
            /\ (last'.ret = "ok") <=> (last'.answer = "approve")
            /\ UNCHANGED qvars ]_vars

\* C18 witness: the human rejected at the terminal an operation whose key
\* holds an approved entry of the session, and the entry is still there
RejectedDespiteApprovedEntry ==
    /\ last.op = "evaluate"
    /\ isTTY
    /\ last.sessionKey # NoSession
    /\ last.answer = "reject"
    /\ last.pre = "approved"
    /\ last.ret # "ok"
    /\ lastKey \in DOMAIN entries
    /\ entries[lastKey].status = "approved"

\* C27: when an ASK-ruled operation is not approved, the failure carries the
\* retry instructions iff the arbitration ran in Channel mode (no terminal, a
\* session key) and is the plain rejection in Interactive and Headless mode;
\* in Channel mode it names the clawbands_respond protocol iff the reply tool
\* is available and the retry-the-same-call protocol otherwise.
RetryInstructionsInChannelOnly ==
    (/\ last.op = "evaluate"
     /\ lookupRule(policy, last.moduleName, last.methodName).action = "ASK"
     /\ last.ret # "ok") =>
        IF ~isTTY /\ last.sessionKey # NoSession
        THEN last.ret = IF respondToolAvailable
                        THEN "APPROVAL_REQUIRED: clawbands_respond"
                        ELSE "APPROVAL_REQUIRED: call again"
        ELSE last.ret = "Security Violation: DENIED"

\* C27 witness: a Channel-mode evaluate of an ASK-ruled operation was refused
\* with the instructions of the reply tool
RefusedNamingReplyTool ==
    /\ last.op = "evaluate"
    /\ lookupRule(policy, last.moduleName, last.methodName).action = "ASK"
    /\ ~isTTY
    /\ last.sessionKey # NoSession
    /\ respondToolAvailable
    /\ last.ret = "APPROVAL_REQUIRED: clawbands_respond"

-----------------------------------------------------------------------------
(* Properties of Interceptor.lookupRule, under LookupSpec *)

\* C19: lookup(module, method) returns the configured rule when the policy has
\* an entry for exactly that module and method, and otherwise a rule whose
\* action is the policy's defaultAction; a '*' entry of the module is matched
\* by the method name '*' only.
LookupExact ==
    last.op = "lookupRule" =>
        IF configured(policy, last.moduleName, last.methodName)
        THEN last.ret = policy.modules[last.moduleName][last.methodName]
        ELSE last.ret.action = policy.defaultAction

\* C20: lookup returns, for every policy and every (module, method), a rule
\* whose action is one of ALLOW, DENY, ASK, and the action returned for an
\* unconfigured operation is ASK when the policy specifies no defaultAction.
LookupFailSecure ==
    last.op = "lookupRule" =>
        /\ last.ret.action \in {"ALLOW", "DENY", "ASK"}
        /\ (/\ policy.defaultAction = Undefined
            /\ ~configured(policy, last.moduleName, last.methodName))
               => last.ret.action = "ASK"

-----------------------------------------------------------------------------
(* Properties of the blanket allows, under BlanketSpec *)

\* C24: allowFor(s, m, x, d) at time t stores the expiry t + d under the key,
\* overwriting a later or an earlier one; no other call changes or removes a
\* grant before its expiry; hasBlanketAllow(s, m, x) is true at every time
\* before the expiry and false from it on, and that read evicts the grant.
BlanketAllowWindow ==
    [][ /\ last'.op = "allowFor" =>
               /\ lastKey' \in DOMAIN blanketAllows'
               /\ blanketAllows'[lastKey'] = now + last'.ret
        /\ \A k \in DOMAIN blanketAllows :
               (/\ now' < blanketAllows[k]
                /\ ~(last'.op = "allowFor" /\ lastKey' = k)) =>
                   /\ k \in DOMAIN blanketAllows'
                   /\ blanketAllows'[k] = blanketAllows[k]
        /\ last'.op = "hasBlanketAllow" =>
               /\ last'.ret = (/\ lastKey' \in DOMAIN blanketAllows
                               /\ now < blanketAllows[lastKey'])
               /\ ~last'.ret => lastKey' \notin DOMAIN blanketAllows'
      ]_vars

\* C24 witness: a grant was read at or after its expiry, answered false and
\* evicted by that read
LapsedGrantEvicted ==
    /\ last.op = "hasBlanketAllow"
    /\ last.pre = "lapsed"
    /\ last.ret = FALSE
    /\ lastKey \notin DOMAIN blanketAllows

\* C33: blanket allows and approval entries are independent: request, consume,
\* consumePending, approve and deny never add, change or remove an unexpired
\* blanket allow; allowFor and hasBlanketAllow never change an approval entry;
\* only allowFor adds or re-times a blanket allow.
BlanketsAndEntriesIndependent ==
    [][ /\ last'.op \in {"request", "consume", "consumePending", "approve", "deny"} =>
            /\ \A k \in DOMAIN blanketAllows :
                   now < blanketAllows[k] =>
                       /\ k \in DOMAIN blanketAllows'
                       /\ blanketAllows'[k] = blanketAllows[k]
            /\ \A k \in DOMAIN blanketAllows' :
                   /\ k \in DOMAIN blanketAllows
                   /\ blanketAllows'[k] = blanketAllows[k]
        /\ last'.op \in {"allowFor", "hasBlanketAllow"} => entries' = entries
        /\ (\E k \in DOMAIN blanketAllows' :
                \/ k \notin DOMAIN blanketAllows
                \/ blanketAllows'[k] # blanketAllows[k])
            => last'.op = "allowFor"
      ]_vars

\* approve, request or deny has just swept: the lapsed grant is gone, the live
\* one is kept beside the entry the call acted on.
LiveGrantSurvivesSweep ==
    /\ last.op \in {"request", "approve", "deny"}
    /\ lastCleanup = now
    /\ now > 0
    /\ key(SessionAB, Shell, bash) \in DOMAIN blanketAllows
    /\ now < blanketAllows[key(SessionAB, Shell, bash)]
    /\ key(SessionAB, FileSystem, write) \notin DOMAIN blanketAllows
    /\ key(SessionAB, Shell, bash) \in DOMAIN entries

\* C34: the housekeeping sweep removes only entries and blanket allows with
\* now >= expiresAt and never a live one; it runs only inside request, approve
\* or deny, and only when more than 30 s have passed since the previous sweep or
\* since the queue was constructed, so any two sweeps are more than 30 s apart.
SweepThrottledAndExact ==
    [][ /\ lastCleanup' # lastCleanup =>
            /\ last'.op \in {"request", "approve", "deny"}
            /\ now - lastCleanup > 30000
            /\ lastCleanup' = now
            /\ \A k \in DOMAIN entries' : now < entries'[k].expiresAt
            /\ \A k \in DOMAIN blanketAllows' : now < blanketAllows'[k]
        /\ last'.op \in {"request", "approve"} =>
            \A k \in DOMAIN entries :
                now < entries[k].expiresAt => k \in DOMAIN entries'
        /\ last'.op = "deny" =>
            \A k \in DOMAIN entries :
                (now < entries[k].expiresAt /\ entries[k].status # "pending")
                    => (k \in DOMAIN entries' /\ entries'[k] = entries[k])
        /\ last'.op \in {"request", "approve", "deny"} =>
            \A k \in DOMAIN blanketAllows :
                now < blanketAllows[k] =>
                    (k \in DOMAIN blanketAllows' /\ blanketAllows'[k] = blanketAllows[k])
      ]_vars

\* A request 30 s after a sweep does not sweep: the grant that lapsed at this
\* instant is still in the map.
SweepWithheldWithinInterval ==
    /\ last.op = "request"
    /\ lastCleanup = 2 * TickMs
    /\ now = lastCleanup + 30000
    /\ \E k \in DOMAIN blanketAllows : now >= blanketAllows[k]

-----------------------------------------------------------------------------
(* Properties of the reporting, under AuditSpec *)

\* C25: every evaluate whose rule action is ALLOW, DENY or ASK reports exactly
\* one decision record: ALLOWED for ALLOW, BLOCKED for DENY, APPROVED when ASK
\* was approved and REJECTED when it was not, the Channel-mode first encounter
\* included; evaluate succeeds iff the record is ALLOWED or APPROVED.
OneDecisionReported ==
    (/\ last.op = "evaluate"
     /\ lookupRule(policy, last.moduleName, last.methodName).action
            \in {"ALLOW", "DENY", "ASK"}) =>
        /\ Len(last.reports) = 1
        /\ last.reports[1].decision =
               CASE lookupRule(policy, last.moduleName, last.methodName).action = "ALLOW"
                        -> "ALLOWED"
                 [] lookupRule(policy, last.moduleName, last.methodName).action = "DENY"
                        -> "BLOCKED"
                 [] OTHER -> IF last.ret = "ok" THEN "APPROVED" ELSE "REJECTED"
        /\ (last.ret = "ok") <=> (last.reports[1].decision \in {"ALLOWED", "APPROVED"})

\* C25 witness: a Channel-mode first encounter of an ASK-ruled operation armed
\* a wait and was reported as REJECTED
FirstEncounterReported ==
    /\ last.op = "evaluate"
    /\ ~isTTY
    /\ last.sessionKey # NoSession
    /\ last.pre = "missing"
    /\ lastKey \in DOMAIN entries
    /\ Len(last.reports) = 1
    /\ last.reports[1].decision = "REJECTED"
    /\ last.ret # "ok"

\* C26: a failure of the audit sink or of the statistics sink never changes
\* the outcome of evaluate: the verdict, its failure message and the queue after
\* the call are those of the call with working sinks, and the statistics
\* increment is attempted also when the audit append failed.
ReportingNeverDecides ==
    [][ last'.op = "evaluate" =>
            /\ last'.ret = evaluateRet(policy, Queue, isTTY, respondToolAvailable,
                                       last'.sessionKey, last'.moduleName,
                                       last'.methodName, now, last'.answer = "approve")
            /\ <<entries', blanketAllows', lastCleanup'>> =
                   LET r == evaluate(policy, Queue, isTTY, last'.sessionKey,
                                     last'.moduleName, last'.methodName, now)
                   IN  <<r.entries, r.blanketAllows, r.lastCleanup>>
            /\ \A i \in DOMAIN last'.reports :
                   last'.reports[i].stats # "not attempted"
      ]_vars

\* C26 witness: both sinks failed during an evaluate that succeeded
SucceededWithoutSinks ==
    /\ last.op = "evaluate"
    /\ Len(last.reports) = 1
    /\ last.reports[1].audit = "failed"
    /\ last.reports[1].stats = "failed"
    /\ last.ret = "ok"

-----------------------------------------------------------------------------
(* Properties of the hook on unmapped tool names, under UnmappedSpec *)

\* The failures of evaluate that refuse an operation
Refusals == {"APPROVAL_REQUIRED: clawbands_respond", "APPROVAL_REQUIRED: call again",
             "Security Violation: DENIED"}

\* C28: a tool name absent from the table is evaluated as module 'Unknown'
\* with the tool name as method, and its verdict is the one of the policy's
\* defaultAction unless the policy configures that pair; mapped names are
\* matched case-insensitively.
UnmappedToolDefaulted ==
    /\ \A toolName \in ToolNames :
           IF toLowerCase(toolName) \in DOMAIN TOOL_TO_MODULE
           THEN /\ toolModule(toolName) = TOOL_TO_MODULE[toLowerCase(toolName)].module
                /\ toolMethod(toolName) = TOOL_TO_MODULE[toLowerCase(toolName)].method
           ELSE /\ toolModule(toolName) = Unknown
                /\ toolMethod(toolName) = toolName
    /\ toolModule(<<"Bash">>) = Shell /\ toolMethod(<<"Bash">>) = bash
    /\ (last.op = "evaluate" /\ last.moduleName = Unknown) =>
           LET action == IF configured(policy, Unknown, last.methodName)
                         THEN policy.modules[Unknown][last.methodName].action
                         ELSE policy.defaultAction
           IN  /\ action = "ALLOW" => last.ret = "ok"
               /\ action = "DENY" => last.ret \in Refusals
               /\ action = "ASK" =>
                      /\ last.ret \in {"ok"} \cup Refusals
                      /\ Len(last.reports) = 1
                      /\ last.reports[1].decision \in {"APPROVED", "REJECTED"}

\* C39: a malformed rule is fail-secure: when the action of the resolved rule
\* is none of ALLOW, DENY, ASK, evaluate fails, the hook blocks the tool call,
\* and the approval entries and blanket allows are left as they were.
MalformedRuleBlocks ==
    [][ ( /\ last'.op = "evaluate"
          /\ lookupRule(policy, last'.moduleName, last'.methodName).action
                 \notin {"ALLOW", "DENY", "ASK"} )
        => /\ last'.ret = "Unknown decision type"
           /\ last'.result = Blocked("Unknown decision type")
           /\ last'.result.block
           /\ UNCHANGED qvars
      ]_vars

\* The tool 'bash' was blocked under the policy that spells its action 'ask',
\* beside the pending entry of another tool call.
LowerCaseActionBlocked ==
    /\ policy = LowerCasePolicy
    /\ last.op = "evaluate"
    /\ last.methodName = bash
    /\ last.ret = "Unknown decision type"
    /\ last.result.block
    /\ DOMAIN entries # {}

-----------------------------------------------------------------------------
(* Properties of the 'allow' reply, under ReplySpec *)

\* C30: handling an 'allow' reply for session s installs a blanket allow
\* expiring 15 minutes later for exactly the operations pending and unexpired
\* in s at that moment and approves exactly those entries; it creates no
\* blanket allow for another session or for an operation that was not pending.
AllowCoversExactlyPending ==
    [][ last'.op = "allow" =>
            LET hit == {k \in DOMAIN entries :
                           /\ entries[k].sessionKey = last'.sessionKey
                           /\ entries[k].status = "pending"
                           /\ now < entries[k].expiresAt}
            IN  /\ \A k \in hit :
                       /\ k \in DOMAIN blanketAllows'
                       /\ blanketAllows'[k] = now + 900000
                       /\ k \in DOMAIN entries'
                       /\ entries'[k].status = "approved"
                /\ \A k \in (DOMAIN blanketAllows') \ hit :
                       /\ k \in DOMAIN blanketAllows
                       /\ blanketAllows'[k] = blanketAllows[k]
                /\ \A k \in (DOMAIN entries) \ hit :
                       now < entries[k].expiresAt =>
                           /\ k \in DOMAIN entries'
                           /\ entries'[k] = entries[k]
      ]_vars

-----------------------------------------------------------------------------
(* Properties of the replies that find nothing to act on, under Spec *)

\* Session s has an entry of its own that is pending and unexpired
livePending(es, s, t) ==
    \E k \in DOMAIN es : /\ es[k].sessionKey = s
                         /\ es[k].status = "pending"
                         /\ t < es[k].expiresAt

\* C31: a clawbands_respond call changes no queue state when it carries no
\* session key, when its decision is none of yes/no/allow (compared
\* case-insensitively), or when the decision is 'yes' or 'allow' and the session
\* has no live pending entry; 'allow' with nothing pending installs no blanket
\* allow.
IdleReplyChangesNothing ==
    [][ ( \/ last'.op \in {"no session", "invalid"}
          \/ /\ last'.op \in {"yes", "allow"}
             /\ ~livePending(entries, last'.sessionKey, now) )
        => UNCHANGED qvars
      ]_vars

-----------------------------------------------------------------------------
(* Properties of the concurrent tool calls, under ConcSpec *)

\* The evaluate that has just arbitrated was let through by the queue
grantedByQueue ==
    /\ last'.op = "judged"
    /\ last'.ret = "ok"
    /\ lookupRule(policy, last'.moduleName, last'.methodName).action = "ASK"

\* C32: under any interleaving of concurrent evaluate calls and reply-tool
\* calls, the arbitration of one evaluate (consume, consumePending, request) is
\* one atomic step, so no entry is consumed twice: an evaluate succeeds only on
\* a live approved or pending entry of its key, and that step removes the entry,
\* whatever other evaluates are awaiting; an evaluate that is refused leaves a
\* pending entry and removes none.
NoEntryConsumedTwice ==
    [][ /\ grantedByQueue =>
            LET k == key(last'.sessionKey, last'.moduleName, last'.methodName)
            IN  /\ k \in DOMAIN entries
                /\ entries[k].status \in {"approved", "pending"}
                /\ now < entries[k].expiresAt
                /\ k \notin DOMAIN entries'
                /\ \A j \in (DOMAIN entries) \ {k} :
                       j \in DOMAIN entries' /\ entries'[j] = entries[j]
                /\ DOMAIN entries' \subseteq DOMAIN entries
        /\ (last'.op = "judged" /\ last'.ret # "ok") =>
            LET k == key(last'.sessionKey, last'.moduleName, last'.methodName)
            IN  /\ k \in DOMAIN entries'
                /\ entries'[k].status = "pending"
      ]_vars

\* The second evaluate of an operation arbitrates while the first, which
\* consumed the approved entry, is still awaiting: it is refused.
SecondRefusedWhileFirstAwaits ==
    /\ last.op = "judged"
    /\ last.ret # "ok"
    /\ inFlight["second"] # Idle
    /\ inFlight["second"].ret # "ok"
    /\ inFlight["first"] # Idle
    /\ inFlight["first"].ret = "ok"
    /\ inFlight["first"].pre = "approved"
    /\ operationOf(inFlight["first"]) = operationOf(inFlight["second"])

-----------------------------------------------------------------------------
(* Properties of StatsTracker.increment, under StatsSpec *)

\* The increments that were called
issued == {i \in Increments : increments[i].at # "unissued"}

\* The increments that completed successfully
fulfilled == {i \in Increments : increments[i].at = "fulfilled"}

\* C35: concurrent increment calls are serialized so that none is lost: once
\* every increment called, in any interleaving, has completed successfully,
\* totalCalls has grown by their number (from the zeros the file starts with)
\* and totalCalls = allowed + approved + rejected + blocked; while increments
\* are running or have failed, the file counts those that completed.
NoIncrementLost ==
    /\ (issued # {} /\ issued = fulfilled) =>
           /\ statsFile # Missing
           /\ statsFile[1].totalCalls = Cardinality(issued)
    /\ statsFile # Missing =>
           /\ statsFile[1].totalCalls = Cardinality(fulfilled)
           /\ statsFile[1].totalCalls = statsFile[1].allowed + statsFile[1].approved
                                        + statsFile[1].rejected + statsFile[1].blocked
           /\ \A d \in Decisions :
                  Cardinality({i \in fulfilled : increments[i].decision = d})
                      = CASE d = "ALLOWED" -> statsFile[1].allowed
                          [] d = "APPROVED" -> statsFile[1].approved
                          [] d = "REJECTED" -> statsFile[1].rejected
                          [] d = "BLOCKED" -> statsFile[1].blocked

\* All three increments have completed, one APPROVED and two BLOCKED, in
\* whatever order they were called and run.
ThreeChainedAllCounted ==
    /\ fulfilled = Increments
    /\ statsFile # Missing
    /\ statsFile[1].totalCalls = 3
    /\ statsFile[1].approved = 1
    /\ statsFile[1].blocked = 2

-----------------------------------------------------------------------------
(* Properties of the composite key, under KeySpec *)

\* The (sessionKey, module, method) triples the hook evaluates in KeySpec
KeyOperations ==
    {<<s, toolModule(toolName), toolMethod(toolName)>> :
        s \in KeySessions, toolName \in KeyTools}

\* C38: the composite key is injective on the operations the hook can produce:
\* two different (sessionKey, module, method) triples never share an approval
\* entry or a blanket allow, also when session keys or method names contain
\* '::' or '.'. An evaluate that finds an entry under its key finds the entry
\* of its own triple.
KeyInjectiveOnHookOperations ==
    [][ /\ \A c, d \in KeyOperations :
               c # d => key(c[1], c[2], c[3]) # key(d[1], d[2], d[3])
        /\ (last'.op = "evaluate" /\ lastKey' \in DOMAIN entries) =>
               operationOf(entries[lastKey'])
                   = <<last'.sessionKey, last'.moduleName, last'.methodName>>
      ]_vars

=============================================================================
